---------------------------- MODULE Spec2Model ----------------------------
(***************************************************************************)
(* A model of app/utils/doc_preprocessor.py (ZengShanBuYiPreprocessor):    *)
(* the page-text cleaner, the line-classifying structure parser, the       *)
(* semantic chunker, the two-phase classical paragraph splitter and the    *)
(* table-of-contents extractor.                                            *)
(*                                                                         *)
(* Text.  A Python str is modelled as a run-length encoded sequence of     *)
(* runs [ch |-> c, n |-> k]: k >= 1 copies of the character c.  Strings    *)
(* are kept normalised (adjacent runs carry different characters), so two  *)
(* strings are equal exactly when their encodings are.  Every operator     *)
(* below works for any run lengths; a long stretch of body text is one     *)
(* run, which is what lets the program's thresholds (20, 50, 800, 1500)    *)
(* keep their real values.                                                 *)
(*                                                                         *)
(* Characters are named in ASCII:                                          *)
(*   "mu" U+76EE, "lu" U+5F55            the table-of-contents marker      *)
(*   "LB" U+3010, "RB" U+3011            the brackets of a volume heading  *)
(*   "juan" U+5377, "zhi" U+4E4B         volume, of                        *)
(*   "yi" "er" "san" "si" "wu" "liu" "qi" "ba" "jiu" "shi"                 *)
(*                                       the numerals U+4E00 .. U+5341     *)
(*   "yi_big" U+58F9                     the financial numeral one         *)
(*   "zhang" U+7AE0                      chapter                           *)
(*   "dun" U+3001                        the ideographic comma             *)
(*   "c1" U+2460                         a circled numeral                 *)
(*   "zeng" "shan" "bu" "yi4" "xu"       the preface title                 *)
(*   "juhao" U+3002, "tan" U+FF01, "wen" U+FF1F, "fen" U+FF1B              *)
(*                                       the four terminal marks           *)
(*   "[" "]" "qian" "an" "zhu" "jushi1" "jushi2"                           *)
(*                                       the annotation tags               *)
(*   "di" U+7B2C                         ordinal prefix (di yi zhang)      *)
(*   "wei" U+672A, "zhi1" U+77E5         unknown                           *)
(*   "." the ASCII dot, "0" .. "9" the digits, " " the space,              *)
(*   "TAB" any other non-newline whitespace, "NL" the newline,             *)
(*   "LP" U+FF08, "RP" U+FF09            full-width parentheses            *)
(*   "LQ" U+300A, "RQ" U+300B            the title marks of the TOC header *)
(*   "quan" U+5168, "shu" U+4E66         whole book (the TOC volume title) *)
(*   "xu" U+5E8F, "yan" U+8A00           preface (its volume title)        *)
(*   "biao" U+6807, "ti" U+9898          (volume) title                    *)
(*   "a" "b" ordinary body characters.                                     *)
(*                                                                         *)
(* The fixed metadata values that are never compared with text are atoms:  *)
(* content_type "xuyan" (preface), "mulu" (table of contents),             *)
(* "juanbiaoti" (volume title), "zhangjie" (chapter), "zhangjieduanluo"    *)
(* (chapter paragraph); language_style "wenyanwen"; era "qingdai".         *)
(***************************************************************************)
EXTENDS Naturals, Sequences, FiniteSets

VARIABLES
    pc,                 \* the position of the run: which step comes next
    chinese_num,        \* _chinese_to_number: its argument
    number,             \* _chinese_to_number: its result
    text,               \* _clean_page_text: the page text
    cleaned,            \* _clean_page_text: the results of the passes so far
    split_text,         \* _split_classical_paragraphs: its argument text
    scan_pos,           \* ... the number of runs of text the first loop has read
    current_para,       \* ... current_para
    paragraphs,         \* ... paragraphs
    para_pos,           \* ... the number of paragraphs the second loop has read
    temp_para,          \* ... temp_para
    merged_paragraphs,  \* ... merged_paragraphs
    temp_count,         \* history: the number of paragraphs joined in temp_para
    merged_counts,      \* history: the same for each of merged_paragraphs
    volume,             \* _process_volume_semantic: its argument volume
    chapter_pos,        \* ... the number of chapters its loop has read
    chunks,             \* ... chunks
    chapter_chunks,     \* ... what each call of _process_chapter_semantic returned
    parse_lines,        \* _parse_document_structure: the lines its loop has read
    structure,          \* ... structure
    current_section,    \* ... current_section
    full_text,          \* _create_toc_chunks: its argument full_text
    toc_pos,            \* ... the number of lines its loop has read
    in_toc,             \* ... in_toc
    toc_lines,          \* ... toc_lines
    toc_chunks,         \* ... the list it returns
    index_title,        \* _extract_chapter_index: its argument title
    index_result,       \* ... what it returns
    pdf_pages,          \* process_zengshan_document: what extract_text() gives, page by page
    page_pos,           \* ... the number of pages extract_text_from_pdf has read
    vector_store,       \* ... the documents in the vector store
    response,           \* ... what its caller gets: a response or an exception
    warnings,           \* ... the warnings logged
    calls,              \* two calls on one instance: the local variables of each
    instance            \* the patterns and the table __init__ stores on the instance

vars == <<pc, chinese_num, number, text, cleaned,
          split_text, scan_pos, current_para, paragraphs, para_pos, temp_para,
          merged_paragraphs, temp_count, merged_counts,
          volume, chapter_pos, chunks, chapter_chunks,
          parse_lines, structure, current_section,
          full_text, toc_pos, in_toc, toc_lines, toc_chunks,
          index_title, index_result,
          pdf_pages, page_pos, vector_store, response, warnings, calls, instance>>

----------------------------------------------------------------------------
(* Bounds of the model. *)

\* longest ordinal token tried on _chinese_to_number
MaxTokenLen == 2
\* longest page text (in characters) tried on _clean_page_text
MaxPageLen == 5
\* most sentences and lines a text tried on _split_classical_paragraphs is made of
MaxSplitSegs == 3
\* most lines the content of a chapter tried on the chunker is made of
MaxChapterLines == 2
\* most lines of a document tried on the parser
MaxParseLines == 4
\* most lines of a text tried on _create_toc_chunks
MaxTocLines == 3
\* most segments a short text tried on the paragraph splitter is made of
MaxShortSegs == 3
\* most pages of a document tried on process_zengshan_document
MaxDocPages == 3

----------------------------------------------------------------------------
(* The program's thresholds. *)

\* _clean_page_text: an all-digit line shorter than this is a page number
PageNumberLen == 4
\* _is_semantic_unit: a shorter buffer is no semantic unit
SemanticUnitLen == 20
\* _split_classical_paragraphs: paragraphs are merged while shorter than this
MergeThreshold == 800
\* _split_large_chapter: a paragraph no longer than this is filtered out
ShortParagraphLen == 50
\* _process_chapter_semantic: a chapter longer than this is split
ChapterThreshold == 1500

----------------------------------------------------------------------------
(* Strings. *)

Run(c, k) == [ch |-> c, n |-> k]

\* str + str
Cat(s, t) ==
    IF s = <<>> THEN t
    ELSE IF t = <<>> THEN s
    ELSE IF s[Len(s)].ch = t[1].ch
         THEN SubSeq(s, 1, Len(s) - 1)
              \o <<Run(t[1].ch, s[Len(s)].n + t[1].n)>>
              \o Tail(t)
         ELSE s \o t

\* c * k
Rep(c, k) == IF k = 0 THEN <<>> ELSE <<Run(c, k)>>

\* a string literal, given character by character
Lit(cs) ==
    LET starts == {i \in 1..Len(cs) : i = 1 \/ cs[i] # cs[i - 1]}
        start(k) == CHOOSE i \in starts : Cardinality({j \in starts : j < i}) = k - 1
        end(k) == IF k = Cardinality(starts) THEN Len(cs) ELSE start(k + 1) - 1
    IN [k \in 1..Cardinality(starts) |-> Run(cs[start(k)], end(k) - start(k) + 1)]

\* len(str)
RECURSIVE StrLen(_)
StrLen(s) == IF s = <<>> THEN 0 ELSE s[1].n + StrLen(Tail(s))

\* str[0] and str[1:] of a non-empty string
First(s) == s[1].ch
Rest(s) == IF s[1].n = 1 THEN Tail(s) ELSE <<Run(s[1].ch, s[1].n - 1)>> \o Tail(s)

\* str.isspace() of one character, which is also what \s matches
Whitespace == {" ", "TAB", "NL"}
\* what \d matches
Digits == {"0", "1", "2", "3", "4", "5", "6", "7", "8", "9"}

RECURSIVE LStrip(_)
LStrip(s) ==
    IF s = <<>> THEN <<>>
    ELSE IF s[1].ch \in Whitespace THEN LStrip(Tail(s)) ELSE s

RECURSIVE RStrip(_)
RStrip(s) ==
    IF s = <<>> THEN <<>>
    ELSE IF s[Len(s)].ch \in Whitespace THEN RStrip(SubSeq(s, 1, Len(s) - 1)) ELSE s

\* str.strip()
Strip(s) == RStrip(LStrip(s))

\* str.split(c) for a one-character separator c: the pieces, empty ones included
RECURSIVE SplitFrom(_, _, _)
SplitFrom(s, c, cur) ==
    IF s = <<>> THEN <<cur>>
    ELSE IF s[1].ch = c
         THEN <<cur>> \o [i \in 1..(s[1].n - 1) |-> <<>>] \o SplitFrom(Tail(s), c, <<>>)
         ELSE SplitFrom(Tail(s), c, Cat(cur, <<s[1]>>))

Split(s, c) == SplitFrom(s, c, <<>>)

\* sep.join(list)
RECURSIVE Join(_, _)
Join(sep, list) ==
    IF list = <<>> THEN <<>>
    ELSE IF Len(list) = 1 THEN list[1]
    ELSE Cat(Cat(list[1], sep), Join(sep, Tail(list)))

\* every sequence over S of length at most k
SeqsUpTo(S, k) == UNION {[1..m -> S] : m \in 0..k}

----------------------------------------------------------------------------
(* _chinese_to_number and the table it reads. *)

\* self.chinese_numbers
chinese_numbers ==
    [c \in {"yi", "er", "san", "si", "wu", "liu", "qi", "ba", "jiu", "shi"} |->
        CASE c = "yi"  -> Lit(<<"1">>)
          [] c = "er"  -> Lit(<<"2">>)
          [] c = "san" -> Lit(<<"3">>)
          [] c = "si"  -> Lit(<<"4">>)
          [] c = "wu"  -> Lit(<<"5">>)
          [] c = "liu" -> Lit(<<"6">>)
          [] c = "qi"  -> Lit(<<"7">>)
          [] c = "ba"  -> Lit(<<"8">>)
          [] c = "jiu" -> Lit(<<"9">>)
          [] c = "shi" -> Lit(<<"1", "0">>)]

\* a dict is keyed by whole strings: a key of the table is a one-character string
IsKey(s) == Len(s) = 1 /\ s[1].n = 1 /\ s[1].ch \in DOMAIN chinese_numbers

\* a slip: the lookup is made on the token's first character
ChineseToNumberFirstChar(s) ==
    IF s # <<>> /\ First(s) \in DOMAIN chinese_numbers
    THEN chinese_numbers[First(s)] ELSE s

\* self.chinese_numbers.get(chinese_num, chinese_num)
ChineseToNumber(s) == IF IsKey(s) THEN chinese_numbers[s[1].ch] ELSE s

----------------------------------------------------------------------------
(* _clean_page_text. *)

\* re.match(r'^\d+$', line): the line is one or more digits
AllDigits(s) == s # <<>> /\ \A i \in 1..Len(s) : s[i].ch \in Digits

\* a slip: runs of whitespace are deleted instead of collapsed
DeleteSpaces(s) ==
    LET F[i \in 0..Len(s)] ==
            IF i = 0 THEN <<>>
            ELSE IF s[i].ch \in Whitespace THEN F[i - 1] ELSE Cat(F[i - 1], <<s[i]>>)
    IN F[Len(s)]

\* re.sub(r'\s+', ' ', line)
RECURSIVE CollapseSpaces(_)
CollapseSpaces(s) ==
    IF s = <<>> THEN <<>>
    ELSE IF s[1].ch \in Whitespace
         THEN Cat(Lit(<<" ">>), CollapseSpaces(LStrip(s)))
         ELSE Cat(<<s[1]>>, CollapseSpaces(Tail(s)))

\* the body of the loop over the page's lines: the cleaned lines
RECURSIVE CleanLines(_)
CleanLines(lines) ==
    IF lines = <<>> THEN <<>>
    ELSE LET line == Strip(lines[1])
         IN IF line = <<>> THEN CleanLines(Tail(lines))
            ELSE IF AllDigits(line) /\ StrLen(line) < PageNumberLen THEN CleanLines(Tail(lines))
            ELSE <<CollapseSpaces(line)>> \o CleanLines(Tail(lines))

CleanPageText(t) == Join(Lit(<<"NL">>), CleanLines(Split(t, "NL")))

----------------------------------------------------------------------------
(* _split_classical_paragraphs and _is_semantic_unit. *)

\* the four marks _is_semantic_unit looks for
TerminalMarks == {"juhao", "tan", "wen", "fen"}

\* the characters for which "char in separators" holds: the list's first entry,
\* the two-character blank line, never equals a single character
Separators == TerminalMarks \cup {"NL"}

\* a slip: the length is not tested
IsSemanticUnitAnyLength(t) ==
    IF ~ \E i \in 1..Len(t) : t[i].ch \in TerminalMarks THEN FALSE
    ELSE TRUE

IsSemanticUnit(t) ==
    IF StrLen(t) < SemanticUnitLen THEN FALSE
    ELSE IF ~ \E i \in 1..Len(t) : t[i].ch \in TerminalMarks THEN FALSE
    ELSE TRUE

\* a slip: a separator that makes no cut empties the buffer
ScanCharDrops(st, c) ==
    LET cur == Cat(st.current_para, Lit(<<c>>))
    IN IF c \in Separators /\ Strip(cur) # <<>> /\ IsSemanticUnit(cur)
       THEN [paragraphs |-> Append(st.paragraphs, Strip(cur)), current_para |-> <<>>]
       ELSE IF c \in Separators
       THEN [paragraphs |-> st.paragraphs, current_para |-> <<>>]
       ELSE [paragraphs |-> st.paragraphs, current_para |-> cur]

\* one turn of the first loop, on the character c; st is [paragraphs, current_para]
ScanChar(st, c) ==
    LET cur == Cat(st.current_para, Lit(<<c>>))
    IN IF c \in Separators /\ Strip(cur) # <<>> /\ IsSemanticUnit(cur)
       THEN [paragraphs |-> Append(st.paragraphs, Strip(cur)), current_para |-> <<>>]
       ELSE [paragraphs |-> st.paragraphs, current_para |-> cur]

\* k turns of the first loop, on k copies of the character c: a character that is
\* no separator is only appended, so a run of them is appended at once
RECURSIVE ScanRun(_, _, _)
ScanRun(st, c, k) ==
    IF k = 0 THEN st
    ELSE IF c \notin Separators
         THEN [paragraphs |-> st.paragraphs, current_para |-> Cat(st.current_para, Rep(c, k))]
         ELSE ScanRun(ScanChar(st, c), c, k - 1)

\* a slip: what is left in current_para when the text ends is forgotten
ScanEndForgets(st) == st.paragraphs

\* after the first loop: the last paragraph
ScanEnd(st) ==
    IF Strip(st.current_para) # <<>>
    THEN Append(st.paragraphs, Strip(st.current_para))
    ELSE st.paragraphs

\* a slip: the threshold is tested on temp_para alone
MergeFitsTempOnly(temp, para) == StrLen(temp) < MergeThreshold

\* len(temp_para + para) < 800
MergeFits(temp, para) == StrLen(Cat(temp, para)) < MergeThreshold

\* a slip: the paragraph that does not fit replaces temp_para, which is lost
MergeParaLosing(st, para) ==
    IF MergeFits(st.temp_para, para)
    THEN [merged_paragraphs |-> st.merged_paragraphs,
          temp_para |-> IF st.temp_para # <<>>
                        THEN Cat(st.temp_para, Cat(Lit(<<"NL">>), para)) ELSE para]
    ELSE [merged_paragraphs |-> st.merged_paragraphs, temp_para |-> para]

\* one turn of the second loop, on the paragraph para; st is
\* [merged_paragraphs, temp_para]
MergePara(st, para) ==
    IF MergeFits(st.temp_para, para)
    THEN [merged_paragraphs |-> st.merged_paragraphs,
          temp_para |-> IF st.temp_para # <<>>
                        THEN Cat(st.temp_para, Cat(Lit(<<"NL">>), para)) ELSE para]
    ELSE [merged_paragraphs |-> IF st.temp_para # <<>>
                                THEN Append(st.merged_paragraphs, st.temp_para)
                                ELSE st.merged_paragraphs,
          temp_para |-> para]

\* a slip: temp_para is forgotten when the loop is over
MergeEndForgets(st) == st.merged_paragraphs

\* after the second loop: the last merged paragraph
MergeEnd(st) ==
    IF st.temp_para # <<>>
    THEN Append(st.merged_paragraphs, st.temp_para)
    ELSE st.merged_paragraphs

\* the first loop and what follows it; st is the state of the loop,
\* [paragraphs, current_para], with pos, the number of runs of text it has read
RECURSIVE ScanFrom(_, _)
ScanFrom(st, t) ==
    IF st.pos >= Len(t) THEN ScanEnd(st)
    ELSE LET got == ScanRun(st, t[st.pos + 1].ch, t[st.pos + 1].n)
         IN ScanFrom([paragraphs |-> got.paragraphs,
                      current_para |-> got.current_para,
                      pos |-> st.pos + 1], t)

\* the second loop and what follows it; st is the state of the loop,
\* [merged_paragraphs, temp_para], with pos, the number of paragraphs it has read
RECURSIVE MergeFrom(_, _)
MergeFrom(st, ps) ==
    IF st.pos >= Len(ps) THEN MergeEnd(st)
    ELSE LET got == MergePara(st, ps[st.pos + 1])
         IN MergeFrom([merged_paragraphs |-> got.merged_paragraphs,
                       temp_para |-> got.temp_para,
                       pos |-> st.pos + 1], ps)

SplitClassicalParagraphs(t) ==
    MergeFrom([merged_paragraphs |-> <<>>, temp_para |-> <<>>, pos |-> 0],
              ScanFrom([paragraphs |-> <<>>, current_para |-> <<>>, pos |-> 0], t))

----------------------------------------------------------------------------
(* The chunker: _extract_chapter_index, _build_chapter_content,            *)
(* _split_large_chapter, _process_chapter_semantic.                        *)

\* the character class of the ten numerals yi .. shi
Numerals == {"yi", "er", "san", "si", "wu", "liu", "qi", "ba", "jiu", "shi"}

\* the k-th character of s, "" past its end
RECURSIVE CharAt(_, _)
CharAt(s, k) ==
    IF s = <<>> THEN ""
    ELSE IF k <= s[1].n THEN s[1].ch ELSE CharAt(Tail(s), k - s[1].n)

\* the longest prefix of s made of the digits 0-9
RECURSIVE DigitPrefix(_)
DigitPrefix(s) ==
    IF s = <<>> \/ s[1].ch \notin Digits THEN <<>>
    ELSE Cat(<<s[1]>>, DigitPrefix(Tail(s)))

\* a slip: the numeral before the comma is returned as it stands
ExtractChapterIndexRaw(title) ==
    IF CharAt(title, 1) \in Numerals /\ CharAt(title, 2) = "dun"
    THEN Lit(<<CharAt(title, 1)>>)
    ELSE IF CharAt(title, 1) = "LP" /\ CharAt(title, 2) \in Numerals
            /\ CharAt(title, 3) = "RP"
    THEN Lit(<<CharAt(title, 2)>>)
    ELSE IF DigitPrefix(title) # <<>>
            /\ CharAt(title, StrLen(DigitPrefix(title)) + 1) = "."
    THEN DigitPrefix(title)
    ELSE Lit(<<"wei", "zhi1">>)

ExtractChapterIndex(title) ==
    IF CharAt(title, 1) \in Numerals /\ CharAt(title, 2) = "dun"
    THEN ChineseToNumber(Lit(<<CharAt(title, 1)>>))
    ELSE IF CharAt(title, 1) = "LP" /\ CharAt(title, 2) \in Numerals
            /\ CharAt(title, 3) = "RP"
    THEN Lit(<<CharAt(title, 2)>>)
    ELSE IF DigitPrefix(title) # <<>>
            /\ CharAt(title, StrLen(DigitPrefix(title)) + 1) = "."
    THEN DigitPrefix(title)
    ELSE Lit(<<"wei", "zhi1">>)

\* a slip: the content is not stripped
BuildChapterContentUnstripped(chapter) ==
    LET content == Cat(Cat(chapter.title, Lit(<<"NL", "NL">>)), chapter.content)
    IN IF chapter.annotations # <<>>
       THEN Cat(content, Cat(Lit(<<"NL", "NL">>),
                             Join(Lit(<<"NL">>), chapter.annotations)))
       ELSE content

BuildChapterContent(chapter) ==
    LET content == Cat(Cat(chapter.title, Lit(<<"NL", "NL">>)), chapter.content)
    IN Strip(IF chapter.annotations # <<>>
             THEN Cat(content, Cat(Lit(<<"NL", "NL">>),
                                   Join(Lit(<<"NL">>), chapter.annotations)))
             ELSE content)

\* a slip: the paragraphs are numbered from 0
ParagraphIndexFromZero(i) == i

\* "paragraph_index": i + 1, for the i of enumerate(paragraphs)
ParagraphIndex(i) == i + 1

\* a slip: a paragraph of exactly 50 characters is kept
KeepsParagraphFrom50(para) ==
    Strip(para) # <<>> /\ StrLen(Strip(para)) >= ShortParagraphLen

\* para.strip() and len(para.strip()) > 50
KeepsParagraph(para) ==
    Strip(para) # <<>> /\ StrLen(Strip(para)) > ShortParagraphLen

\* a slip: a chapter of exactly 1500 characters is split
IsLargeChapterFrom1500(content) == StrLen(content) >= ChapterThreshold

\* len(chapter_content) > 1500
IsLargeChapter(content) == StrLen(content) > ChapterThreshold

\* the Document _split_large_chapter makes of paragraphs[i], i counted from 0
ParagraphDoc(para, i, chapter, vol) ==
    [page_content |-> Strip(para),
     metadata |-> [content_type |-> "zhangjieduanluo",
                   block_type |-> "chapter_paragraph",
                   volume_title |-> vol.title,
                   volume_index |-> vol.volume_index,
                   chapter_title |-> chapter.title,
                   chapter_index |-> ExtractChapterIndex(chapter.title),
                   paragraph_index |-> ParagraphIndex(i),
                   language_style |-> "wenyanwen",
                   era |-> "qingdai"]]

\* the loop of _split_large_chapter over enumerate(paragraphs), from index i on
RECURSIVE ParagraphDocsFrom(_, _, _, _)
ParagraphDocsFrom(paras, i, chapter, vol) ==
    IF i >= Len(paras) THEN <<>>
    ELSE IF KeepsParagraph(paras[i + 1])
         THEN <<ParagraphDoc(paras[i + 1], i, chapter, vol)>>
              \o ParagraphDocsFrom(paras, i + 1, chapter, vol)
         ELSE ParagraphDocsFrom(paras, i + 1, chapter, vol)

SplitLargeChapter(content, chapter, vol) ==
    ParagraphDocsFrom(SplitClassicalParagraphs(content), 0, chapter, vol)

\* the Document _process_chapter_semantic makes of a whole chapter
ChapterDoc(content, chapter, vol) ==
    [page_content |-> content,
     metadata |-> [content_type |-> "zhangjie",
                   block_type |-> "chapter",
                   volume_title |-> vol.title,
                   volume_index |-> vol.volume_index,
                   chapter_title |-> chapter.title,
                   chapter_index |-> ExtractChapterIndex(chapter.title),
                   language_style |-> "wenyanwen",
                   era |-> "qingdai"]]

ProcessChapterSemantic(chapter, vol) ==
    LET chapter_content == BuildChapterContent(chapter)
    IN IF IsLargeChapter(chapter_content)
       THEN SplitLargeChapter(chapter_content, chapter, vol)
       ELSE <<ChapterDoc(chapter_content, chapter, vol)>>

\* the Document _process_volume_semantic makes of the volume's title
VolumeDoc(vol) ==
    [page_content |-> vol.title,
     metadata |-> [content_type |-> "juanbiaoti",
                   block_type |-> "volume_title",
                   volume_title |-> vol.title,
                   volume_index |-> vol.volume_index,
                   chapter_title |-> Lit(<<"juan", "biao", "ti">>),
                   chapter_index |-> Lit(<<"0">>)]]

----------------------------------------------------------------------------
(* The patterns of structure_patterns, as re.match applies them to a line. *)

\* s[k:] for a k of at most len(s)
RECURSIVE Drop(_, _)
Drop(s, k) == IF k = 0 \/ s = <<>> THEN s ELSE Drop(Rest(s), k - 1)

\* s[:-1]
DropLast(s) ==
    IF s = <<>> THEN <<>>
    ELSE IF s[Len(s)].n = 1 THEN SubSeq(s, 1, Len(s) - 1)
    ELSE SubSeq(s, 1, Len(s) - 1) \o <<Run(s[Len(s)].ch, s[Len(s)].n - 1)>>

\* s.startswith(lit)
StartsWith(s, lit) == \A k \in 1..StrLen(lit) : CharAt(s, k) = CharAt(lit, k)

\* lit in s, for a non-empty lit: lit's first run ends a run of s, its last run
\* begins one, and its other runs are runs of s
Contains(s, lit) ==
    \E i \in 1..Len(s) :
        /\ i + Len(lit) - 1 <= Len(s)
        /\ \A j \in 1..Len(lit) :
              /\ s[i + j - 1].ch = lit[j].ch
              /\ IF j = 1 \/ j = Len(lit)
                 THEN s[i + j - 1].n >= lit[j].n
                 ELSE s[i + j - 1].n = lit[j].n

\* s without the characters of the class cls it begins with
RECURSIVE SkipClass(_, _)
SkipClass(s, cls) ==
    IF s = <<>> THEN <<>>
    ELSE IF s[1].ch \in cls THEN SkipClass(Tail(s), cls) ELSE s

\* 'toc': ^mu \s* lu
MatchToc(line) ==
    /\ CharAt(line, 1) = "mu"
    /\ CharAt(SkipClass(Drop(line, 1), Whitespace), 1) = "lu"

\* 'volume': ^ LB juan zhi [numerals]+ RB
MatchVolume(line) ==
    /\ StartsWith(line, Lit(<<"LB", "juan", "zhi">>))
    /\ CharAt(line, 4) \in Numerals
    /\ CharAt(SkipClass(Drop(line, 3), Numerals), 1) = "RB"

\* [^\.]+ zhang at the start of s: a zhang that is not the first character, with
\* no dot before it
NonDotsThenZhang(s) ==
    \E i \in 1..Len(s) :
        /\ s[i].ch = "zhang"
        /\ i > 1 \/ s[i].n > 1
        /\ \A j \in 1..(i - 1) : s[j].ch # "."

\* [circled numerals]
Circled == {"c1"}

\* 'chapter': the three patterns, in the order of the list
ChapterPatterns == <<1, 2, 3>>

MatchChapter(pattern, line) ==
    CASE pattern = 1 ->
            /\ CharAt(line, 1) \in Numerals
            /\ CharAt(line, 2) = "dun"
            /\ NonDotsThenZhang(Drop(line, 2))
      [] pattern = 2 -> NonDotsThenZhang(line)
      [] pattern = 3 ->
            /\ CharAt(line, 1) \in Circled
            /\ CharAt(line, 2) = "dun"
            /\ CharAt(line, 3) \notin {"", "."}

\* 'annotation': the three tags a line may begin with
AnnotationTags ==
    << Lit(<<"[", "qian", "an", "]">>),
       Lit(<<"[", "zhu", "]">>),
       Lit(<<"[", "jushi1", "jushi2", "an", "]">>) >>

\* a slip: the tag has to be the whole line
MatchAnnotationWhole(pattern, line) == line = AnnotationTags[pattern]

MatchAnnotation(pattern, line) == StartsWith(line, AnnotationTags[pattern])

\* the preface title
PrefaceTitle == Lit(<<"zeng", "shan", "bu", "yi4", "xu">>)

----------------------------------------------------------------------------
(* _parse_document_structure.  structure["preface"] is <<>> for None and   *)
(* <<preface>> otherwise; current_volume is 0 for None and otherwise the   *)
(* place in volumes of the dict it refers to; current_chapter is <<0, 0>>  *)
(* for None and otherwise <<v, c>>: the c-th chapter of the v-th volume,   *)
(* the dict it refers to.                                                  *)

NewStructure ==
    [has_toc |-> FALSE, preface |-> <<>>, volumes |-> <<>>,
     current_volume |-> 0, current_chapter |-> <<0, 0>>]

\* the volume branch, lines 160-169
OpenVolume(st, line) ==
    LET volume_info == [title |-> line,
                        volume_index |-> ChineseToNumber(DropLast(Drop(line, 3))),
                        chapters |-> <<>>]
    IN [structure |-> [st EXCEPT !.volumes = Append(@, volume_info),
                                 !.current_volume = Len(st.volumes) + 1],
        current_section |-> "volume"]

\* a slip: a chapter goes to the first volume, not to the current one
ChapterOrContentFirstVolume(st, sec, line) ==
    LET chapter_found == \E i \in 1..Len(ChapterPatterns) :
                             MatchChapter(ChapterPatterns[i], line)
        v == IF st.current_volume # 0 THEN 1 ELSE 0
        opened == chapter_found /\ v # 0
        st1 == IF opened
               THEN [st EXCEPT
                       !.volumes[v].chapters =
                           Append(@, [title |-> line, content |-> <<>>,
                                      annotations |-> <<>>]),
                       !.current_chapter = <<v, Len(st.volumes[v].chapters) + 1>>]
               ELSE st
        sec1 == IF opened THEN "chapter_content" ELSE sec
        cv == st1.current_chapter[1]
        cc == st1.current_chapter[2]
        is_annotation == \E i \in 1..Len(AnnotationTags) : MatchAnnotation(i, line)
    IN IF ~chapter_found /\ st1.current_chapter # <<0, 0>>
       THEN IF is_annotation
            THEN [structure |->
                     [st1 EXCEPT !.volumes[cv].chapters[cc].annotations = Append(@, line)],
                  current_section |-> sec1]
            ELSE [structure |->
                     [st1 EXCEPT !.volumes[cv].chapters[cc].content =
                                     Cat(@, Cat(line, Lit(<<"NL">>)))],
                  current_section |-> sec1]
       ELSE [structure |-> st1, current_section |-> sec1]

\* the chapter branch and the chapter-content branch, lines 172-198
ChapterOrContent(st, sec, line) ==
    LET chapter_found == \E i \in 1..Len(ChapterPatterns) :
                             MatchChapter(ChapterPatterns[i], line)
        v == st.current_volume
        opened == chapter_found /\ v # 0
        st1 == IF opened
               THEN [st EXCEPT
                       !.volumes[v].chapters =
                           Append(@, [title |-> line, content |-> <<>>,
                                      annotations |-> <<>>]),
                       !.current_chapter = <<v, Len(st.volumes[v].chapters) + 1>>]
               ELSE st
        sec1 == IF opened THEN "chapter_content" ELSE sec
        cv == st1.current_chapter[1]
        cc == st1.current_chapter[2]
        is_annotation == \E i \in 1..Len(AnnotationTags) : MatchAnnotation(i, line)
    IN IF ~chapter_found /\ st1.current_chapter # <<0, 0>>
       THEN IF is_annotation
            THEN [structure |->
                     [st1 EXCEPT !.volumes[cv].chapters[cc].annotations = Append(@, line)],
                  current_section |-> sec1]
            ELSE [structure |->
                     [st1 EXCEPT !.volumes[cv].chapters[cc].content =
                                     Cat(@, Cat(line, Lit(<<"NL">>)))],
                  current_section |-> sec1]
       ELSE [structure |-> st1, current_section |-> sec1]

\* the branches of the loop body a stripped, non-empty line enters: the first
\* four end in continue, the chapter block and the content block follow one
\* another, and a line that enters neither falls out of the body ("default")
BranchesTaken(st, sec, line) ==
    LET is_toc == MatchToc(line)
        is_preface == ~is_toc /\ Contains(line, PrefaceTitle) /\ sec = "preface"
        in_preface == ~is_toc /\ ~is_preface /\ sec = "preface_content"
        is_volume == ~is_toc /\ ~is_preface /\ ~in_preface /\ MatchVolume(line)
        reached == ~is_toc /\ ~is_preface /\ ~in_preface /\ ~is_volume
        chapter_found == \E i \in 1..Len(ChapterPatterns) :
                             MatchChapter(ChapterPatterns[i], line)
        open_chapter == IF chapter_found /\ st.current_volume # 0
                        THEN TRUE ELSE st.current_chapter # <<0, 0>>
        content_block == reached /\ ~chapter_found /\ open_chapter
        is_annotation == \E i \in 1..Len(AnnotationTags) : MatchAnnotation(i, line)
    IN {b \in {"toc", "preface", "preface_content", "volume", "chapter",
               "annotation", "content", "default"} :
           \/ b = "toc" /\ is_toc
           \/ b = "preface" /\ is_preface
           \/ b = "preface_content" /\ in_preface
           \/ b = "volume" /\ is_volume
           \/ b = "chapter" /\ reached /\ chapter_found
           \/ b = "annotation" /\ content_block /\ is_annotation
           \/ b = "content" /\ content_block /\ ~is_annotation
           \/ b = "default" /\ reached /\ ~chapter_found /\ ~content_block}

\* a slip: the preface branch changes the section and stores no preface
ParseLineNoPreface(st, sec, raw) ==
    LET line == Strip(raw)
    IN IF line = <<>> THEN [structure |-> st, current_section |-> sec]
       ELSE IF MatchToc(line)
       THEN [structure |-> [st EXCEPT !.has_toc = TRUE], current_section |-> "toc"]
       ELSE IF Contains(line, PrefaceTitle) /\ sec = "preface"
       THEN [structure |-> st, current_section |-> "preface_content"]
       ELSE IF sec = "preface_content"
       THEN [structure |-> [st EXCEPT !.preface[1].content =
                               Cat(@, Cat(Lit(<<"NL">>), line))],
             current_section |-> IF MatchVolume(line) THEN "volume" ELSE sec]
       ELSE IF MatchVolume(line)
       THEN OpenVolume(st, line)
       ELSE ChapterOrContent(st, sec, line)

\* a slip: the line is appended to the preface without the newline before it
ParseLineNoSeparator(st, sec, raw) ==
    LET line == Strip(raw)
    IN IF line = <<>> THEN [structure |-> st, current_section |-> sec]
       ELSE IF MatchToc(line)
       THEN [structure |-> [st EXCEPT !.has_toc = TRUE], current_section |-> "toc"]
       ELSE IF Contains(line, PrefaceTitle) /\ sec = "preface"
       THEN [structure |-> [st EXCEPT !.preface =
                               <<[title |-> PrefaceTitle, content |-> line]>>],
             current_section |-> "preface_content"]
       ELSE IF sec = "preface_content"
       THEN [structure |-> [st EXCEPT !.preface[1].content = Cat(@, line)],
             current_section |-> IF MatchVolume(line) THEN "volume" ELSE sec]
       ELSE IF MatchVolume(line)
       THEN OpenVolume(st, line)
       ELSE ChapterOrContent(st, sec, line)

\* a slip: the preface title opens a preface in every section
ParseLineAnySection(st, sec, raw) ==
    LET line == Strip(raw)
    IN IF line = <<>> THEN [structure |-> st, current_section |-> sec]
       ELSE IF MatchToc(line)
       THEN [structure |-> [st EXCEPT !.has_toc = TRUE], current_section |-> "toc"]
       ELSE IF Contains(line, PrefaceTitle)
       THEN [structure |-> [st EXCEPT !.preface =
                               <<[title |-> PrefaceTitle, content |-> line]>>],
             current_section |-> "preface_content"]
       ELSE IF sec = "preface_content"
       THEN [structure |-> [st EXCEPT !.preface[1].content =
                               Cat(@, Cat(Lit(<<"NL">>), line))],
             current_section |-> IF MatchVolume(line) THEN "volume" ELSE sec]
       ELSE IF MatchVolume(line)
       THEN OpenVolume(st, line)
       ELSE ChapterOrContent(st, sec, line)

\* one turn of the loop over the lines, on the line raw
ParseLine(st, sec, raw) ==
    LET line == Strip(raw)
    IN IF line = <<>> THEN [structure |-> st, current_section |-> sec]
       ELSE IF MatchToc(line)
       THEN [structure |-> [st EXCEPT !.has_toc = TRUE], current_section |-> "toc"]
       ELSE IF Contains(line, PrefaceTitle) /\ sec = "preface"
       THEN [structure |-> [st EXCEPT !.preface =
                               <<[title |-> PrefaceTitle, content |-> line]>>],
             current_section |-> "preface_content"]
       ELSE IF sec = "preface_content"
       THEN [structure |-> [st EXCEPT !.preface[1].content =
                               Cat(@, Cat(Lit(<<"NL">>), line))],
             current_section |-> IF MatchVolume(line) THEN "volume" ELSE sec]
       ELSE IF MatchVolume(line)
       THEN OpenVolume(st, line)
       ELSE ChapterOrContent(st, sec, line)

----------------------------------------------------------------------------
(* _create_toc_chunks. *)

\* re.sub(r'\.{3,}\s*\d+', '', line): a run of three or more dots, any
\* whitespace and the digits that follow are removed, wherever they occur
RECURSIVE StripLeaders(_)
StripLeaders(s) ==
    IF s = <<>> THEN <<>>
    ELSE IF /\ s[1].ch = "." /\ s[1].n >= 3
            /\ CharAt(SkipClass(Tail(s), Whitespace), 1) \in Digits
         THEN StripLeaders(SkipClass(SkipClass(Tail(s), Whitespace), Digits))
         ELSE Cat(<<s[1]>>, StripLeaders(Tail(s)))

\* the header of the chunk's text
TocHeader == Lit(<<"LQ", "zeng", "shan", "bu", "yi4", "RQ", "mu", "lu", "NL", "NL">>)

\* a slip: the loop goes on after the first volume heading
TocLineNoBreak(st, raw) ==
    LET line == Strip(raw)
        cleaned_line == Strip(StripLeaders(line))
    IN IF line = <<>> THEN st
       ELSE IF MatchToc(line) THEN [st EXCEPT !.in_toc = TRUE]
       ELSE IF st.in_toc /\ MatchVolume(line) THEN st
       ELSE IF st.in_toc /\ line # <<>>
               /\ cleaned_line # <<>> /\ StrLen(cleaned_line) > 1
               /\ ~AllDigits(cleaned_line)
       THEN [st EXCEPT !.toc_lines = Append(@, cleaned_line)]
       ELSE st

\* one turn of the loop over the lines, on the line raw; st is
\* [in_toc, toc_lines, stop], stop set by the break
TocLine(st, raw) ==
    LET line == Strip(raw)
        cleaned_line == Strip(StripLeaders(line))
    IN IF line = <<>> THEN st
       ELSE IF MatchToc(line) THEN [st EXCEPT !.in_toc = TRUE]
       ELSE IF st.in_toc /\ MatchVolume(line) THEN [st EXCEPT !.stop = TRUE]
       ELSE IF st.in_toc /\ line # <<>>
               /\ cleaned_line # <<>> /\ StrLen(cleaned_line) > 1
               /\ ~AllDigits(cleaned_line)
       THEN [st EXCEPT !.toc_lines = Append(@, cleaned_line)]
       ELSE st

\* the Document made of the lines kept
TocDoc(kept) ==
    [page_content |-> Cat(TocHeader, Join(Lit(<<"NL">>), kept)),
     metadata |-> [content_type |-> "mulu",
                   block_type |-> "table_of_contents",
                   volume_title |-> Lit(<<"quan", "shu", "mu", "lu">>),
                   volume_index |-> Lit(<<"0">>),
                   chapter_title |-> Lit(<<"mu", "lu">>),
                   chapter_index |-> Lit(<<"0">>)]]

\* a slip: one chunk for each line kept
TocEndPerLine(kept) == [i \in 1..Len(kept) |-> TocDoc(<<kept[i]>>)]

\* after the loop: the list returned
TocEnd(kept) == IF kept # <<>> THEN <<TocDoc(kept)>> ELSE <<>>

----------------------------------------------------------------------------
(* The functions as wholes: _parse_document_structure, _create_toc_chunks, *)
(* _create_preface_chunk, _process_volume_semantic, create_semantic_chunks *)
(* and the steps of RAGService.process_zengshan_document.                  *)

\* the loop of _parse_document_structure and its return; st is the state of
\* the loop, [structure, current_section], with pos, the number of lines read
RECURSIVE ParseFrom(_, _)
ParseFrom(st, ls) ==
    IF st.pos >= Len(ls) THEN st.structure
    ELSE LET got == ParseLine(st.structure, st.current_section, ls[st.pos + 1])
         IN ParseFrom([structure |-> got.structure,
                       current_section |-> got.current_section,
                       pos |-> st.pos + 1], ls)

ParseDocumentStructure(t) ==
    ParseFrom([structure |-> NewStructure, current_section |-> "preface", pos |-> 0],
              Split(t, "NL"))

\* the loop of _create_toc_chunks and what follows it; st is the state of the
\* loop, [in_toc, toc_lines, stop], with pos, the number of lines read
RECURSIVE TocFrom(_, _)
TocFrom(st, ls) ==
    IF st.stop \/ st.pos >= Len(ls) THEN TocEnd(st.toc_lines)
    ELSE LET got == TocLine(st, ls[st.pos + 1])
         IN TocFrom([in_toc |-> got.in_toc, toc_lines |-> got.toc_lines,
                     stop |-> got.stop, pos |-> st.pos + 1], ls)

CreateTocChunks(t) ==
    TocFrom([in_toc |-> FALSE, toc_lines |-> <<>>, stop |-> FALSE, pos |-> 0],
            Split(t, "NL"))

CreatePrefaceChunk(preface) ==
    [page_content |-> Cat(Cat(preface.title, Lit(<<"NL", "NL">>)), preface.content),
     metadata |-> [content_type |-> "xuyan",
                   block_type |-> "preface",
                   volume_title |-> Lit(<<"xu", "yan">>),
                   volume_index |-> Lit(<<"0">>),
                   chapter_title |-> PrefaceTitle,
                   chapter_index |-> Lit(<<"0">>),
                   language_style |-> "wenyanwen",
                   era |-> "qingdai"]]

\* the loop of _process_volume_semantic over the chapters, from the i-th on
RECURSIVE ChapterChunksFrom(_, _)
ChapterChunksFrom(vol, i) ==
    IF i > Len(vol.chapters) THEN <<>>
    ELSE ProcessChapterSemantic(vol.chapters[i], vol) \o ChapterChunksFrom(vol, i + 1)

\* a slip: the chapters are given a volume whose index is "0"
ProcessVolumeSemanticNoIndex(vol) ==
    <<VolumeDoc(vol)>> \o ChapterChunksFrom([vol EXCEPT !.volume_index = Lit(<<"0">>)], 1)

ProcessVolumeSemantic(vol) == <<VolumeDoc(vol)>> \o ChapterChunksFrom(vol, 1)

\* the loop of create_semantic_chunks over the volumes, from the i-th on
RECURSIVE VolumeChunksFrom(_, _)
VolumeChunksFrom(vols, i) ==
    IF i > Len(vols) THEN <<>>
    ELSE ProcessVolumeSemantic(vols[i]) \o VolumeChunksFrom(vols, i + 1)

\* a slip: the TOC chunk is put before the preface chunk
CreateSemanticChunksTocFirst(document_data) ==
    (IF document_data.structure.has_toc
     THEN CreateTocChunks(document_data.full_text) ELSE <<>>)
    \o (IF document_data.structure.preface # <<>>
        THEN <<CreatePrefaceChunk(document_data.structure.preface[1])>> ELSE <<>>)
    \o VolumeChunksFrom(document_data.structure.volumes, 1)

CreateSemanticChunks(document_data) ==
    (IF document_data.structure.preface # <<>>
     THEN <<CreatePrefaceChunk(document_data.structure.preface[1])>> ELSE <<>>)
    \o (IF document_data.structure.has_toc
        THEN CreateTocChunks(document_data.full_text) ELSE <<>>)
    \o VolumeChunksFrom(document_data.structure.volumes, 1)

\* one turn of the loop of extract_text_from_pdf: full_text after the page
\* whose extract_text() gave page_text
ExtractPage(t, page_text) ==
    IF page_text # <<>> THEN Cat(t, Cat(CleanPageText(page_text), Lit(<<"NL">>))) ELSE t

\* chunk.metadata.update({...}) of process_zengshan_document and the doc_id and
\* chunk_id _add_documents_to_vector_store writes, on the i-th chunk (from 0)
StampChunk(doc, i) ==
    [page_content |-> doc.page_content,
     metadata |-> [k \in DOMAIN doc.metadata \cup {"doc_id", "book", "chunk_id"} |->
                      CASE k = "doc_id" -> "doc_id"
                        [] k = "book" -> "zengshanbuyi"
                        [] k = "chunk_id" -> i
                        [] OTHER -> doc.metadata[k]]]

StampChunks(docs) == [i \in 1..Len(docs) |-> StampChunk(docs[i], i - 1)]

\* what the caller of process_zengshan_document has before it returns
NoResponse == [status |-> "none", volume_count |-> 0, chapter_count |-> 0, chunk_count |-> 0]

\* raise Exception(...)
ExceptionRaised ==
    [status |-> "exception", volume_count |-> 0, chapter_count |-> 0, chunk_count |-> 0]

RECURSIVE ChapterCount(_)
ChapterCount(vols) ==
    IF vols = <<>> THEN 0 ELSE Len(vols[1].chapters) + ChapterCount(Tail(vols))

\* the PDFUploadResponse returned
SuccessResponse(st, docs) ==
    [status |-> "success", volume_count |-> Len(st.volumes),
     chapter_count |-> ChapterCount(st.volumes), chunk_count |-> Len(docs)]

----------------------------------------------------------------------------
(* Values of the variables a specification does not use. *)

OrdinalIdle == chinese_num = <<>> /\ number = <<>>
CleanIdle == text = <<>> /\ cleaned = <<>>
SplitIdle ==
    /\ split_text = <<>> /\ scan_pos = 0 /\ current_para = <<>> /\ paragraphs = <<>>
    /\ para_pos = 0 /\ temp_para = <<>> /\ merged_paragraphs = <<>>
    /\ temp_count = 0 /\ merged_counts = <<>>

NoVolume == [title |-> <<>>, volume_index |-> <<>>, chapters |-> <<>>]
ChunkIdle ==
    /\ volume = NoVolume /\ chapter_pos = 0 /\ chunks = <<>> /\ chapter_chunks = <<>>

ParseIdle == parse_lines = <<>> /\ structure = NewStructure /\ current_section = "preface"
TocIdle ==
    /\ full_text = <<>> /\ toc_pos = 0 /\ in_toc = FALSE /\ toc_lines = <<>>
    /\ toc_chunks = <<>>

IndexIdle == index_title = <<>> /\ index_result = <<>>
DocIdle ==
    /\ pdf_pages = <<>> /\ page_pos = 0 /\ vector_store = <<>>
    /\ response = NoResponse /\ warnings = 0
\* __init__: what the instance holds; a pattern stands here by the literal
\* text it begins with, and the lists of patterns by the lists of the matchers
NewInstance ==
    [structure_patterns |-> [toc |-> Lit(<<"mu", "lu">>),
                             volume |-> Lit(<<"LB", "juan", "zhi">>),
                             chapter |-> ChapterPatterns,
                             annotation |-> AnnotationTags],
     chinese_numbers |-> chinese_numbers]

CallsIdle == calls = <<>> /\ instance = NewInstance

index_vars == <<index_title, index_result>>
doc_vars == <<pdf_pages, page_pos, vector_store, response, warnings>>
calls_vars == <<calls, instance>>
ordinal_vars == <<chinese_num, number>>
parse_vars == <<parse_lines, structure, current_section>>
toc_vars == <<full_text, toc_pos, in_toc, toc_lines, toc_chunks>>
chunk_vars == <<volume, chapter_pos, chunks, chapter_chunks>>
clean_vars == <<text, cleaned>>
split_vars == <<split_text, scan_pos, current_para, paragraphs, para_pos, temp_para,
                merged_paragraphs, temp_count, merged_counts>>

----------------------------------------------------------------------------
(* The ordinal resolver, applied to every short token. *)

OrdinalAlphabet ==
    {"yi", "er", "san", "si", "wu", "liu", "qi", "ba", "jiu", "shi", "yi_big", "a"}

OrdinalTokens == {Lit(cs) : cs \in SeqsUpTo(OrdinalAlphabet, MaxTokenLen)}

InitOrdinal ==
    /\ pc = "ordinal"
    /\ chinese_num \in OrdinalTokens
    /\ number = <<>>
    /\ CleanIdle /\ SplitIdle /\ ChunkIdle /\ ParseIdle /\ TocIdle
    /\ IndexIdle /\ DocIdle /\ CallsIdle

ResolveOrdinal ==
    /\ pc = "ordinal"
    /\ number' = ChineseToNumber(chinese_num)
    /\ pc' = "ordinal_done"
    /\ UNCHANGED <<chinese_num, clean_vars, split_vars, chunk_vars, parse_vars, toc_vars,
                   index_vars, doc_vars, calls_vars>>

NextOrdinal == ResolveOrdinal

SpecOrdinal == InitOrdinal /\ [][NextOrdinal]_vars

----------------------------------------------------------------------------
(* The page cleaner, applied to a page text and then to its own output. *)

PageAlphabet == {"1", " ", "TAB", "NL", "a"}

PageTexts == {Lit(cs) : cs \in SeqsUpTo(PageAlphabet, MaxPageLen)}

InitClean ==
    /\ pc = "clean"
    /\ text \in PageTexts
    /\ cleaned = <<>>
    /\ OrdinalIdle /\ SplitIdle /\ ChunkIdle /\ ParseIdle /\ TocIdle
    /\ IndexIdle /\ DocIdle /\ CallsIdle

CleanPass ==
    /\ pc = "clean"
    /\ LET arg == IF cleaned = <<>> THEN text ELSE cleaned[Len(cleaned)]
       IN cleaned' = Append(cleaned, CleanPageText(arg))
    /\ pc' = IF Len(cleaned) = 1 THEN "clean_done" ELSE "clean"
    /\ UNCHANGED <<text, ordinal_vars, split_vars, chunk_vars, parse_vars, toc_vars,
                   index_vars, doc_vars, calls_vars>>

NextClean == CleanPass

SpecClean == InitClean /\ [][NextClean]_vars

----------------------------------------------------------------------------
(* The paragraph splitter, run loop by loop on texts made of sentences and *)
(* lines of chosen lengths.                                                *)

SplitSegs ==
    { Cat(Rep("a", 19), Lit(<<"juhao">>)),          \* a sentence of 20 characters
      Cat(Rep("a", 5), Lit(<<"NL">>)),              \* a short line with no mark
      Cat(Rep("b", 400), Lit(<<"fen", "NL">>)),     \* a clause of 401, then a line break
      Cat(Rep("a", 778), Lit(<<"juhao", " ">>)),    \* a sentence of 779, then a space
      Cat(Rep("b", 829), Lit(<<"tan">>)),           \* a sentence of 830
      Cat(Rep("a", 1600), Lit(<<"wen", "NL">>)) }   \* a sentence of 1601, then a line break

RECURSIVE Concat(_)
Concat(list) == IF list = <<>> THEN <<>> ELSE Cat(list[1], Concat(Tail(list)))

SplitTexts == {Concat(segs) : segs \in SeqsUpTo(SplitSegs, MaxSplitSegs)}

InitSplit ==
    /\ pc = "scan"
    /\ split_text \in SplitTexts
    /\ scan_pos = 0 /\ current_para = <<>> /\ paragraphs = <<>>
    /\ para_pos = 0 /\ temp_para = <<>> /\ merged_paragraphs = <<>>
    /\ temp_count = 0 /\ merged_counts = <<>>
    /\ OrdinalIdle /\ CleanIdle /\ ChunkIdle /\ ParseIdle /\ TocIdle
    /\ IndexIdle /\ DocIdle /\ CallsIdle

\* the first loop reads the next run of the text
SplitScanRun ==
    /\ pc = "scan"
    /\ scan_pos < Len(split_text)
    /\ LET r == split_text[scan_pos + 1]
           st == ScanRun([paragraphs |-> paragraphs, current_para |-> current_para],
                         r.ch, r.n)
       IN /\ paragraphs' = st.paragraphs
          /\ current_para' = st.current_para
    /\ scan_pos' = scan_pos + 1
    /\ UNCHANGED <<pc, split_text, para_pos, temp_para, merged_paragraphs,
                   temp_count, merged_counts, ordinal_vars, clean_vars, chunk_vars,
                   parse_vars, toc_vars,
                   index_vars, doc_vars, calls_vars>>

\* the first loop is over: the last paragraph
SplitScanEnd ==
    /\ pc = "scan"
    /\ scan_pos = Len(split_text)
    /\ paragraphs' = ScanEnd([paragraphs |-> paragraphs, current_para |-> current_para])
    /\ pc' = "merge"
    /\ UNCHANGED <<split_text, scan_pos, current_para, para_pos, temp_para,
                   merged_paragraphs, temp_count, merged_counts, ordinal_vars, clean_vars, chunk_vars,
                   parse_vars, toc_vars,
                   index_vars, doc_vars, calls_vars>>

\* the second loop reads the next paragraph
SplitMergePara ==
    /\ pc = "merge"
    /\ para_pos < Len(paragraphs)
    /\ LET para == paragraphs[para_pos + 1]
           st == MergePara([merged_paragraphs |-> merged_paragraphs,
                            temp_para |-> temp_para], para)
       IN /\ merged_paragraphs' = st.merged_paragraphs
          /\ temp_para' = st.temp_para
          /\ temp_count' = IF MergeFits(temp_para, para) THEN temp_count + 1 ELSE 1
          /\ merged_counts' = IF Len(st.merged_paragraphs) > Len(merged_paragraphs)
                              THEN Append(merged_counts, temp_count) ELSE merged_counts
    /\ para_pos' = para_pos + 1
    /\ UNCHANGED <<pc, split_text, scan_pos, current_para, paragraphs,
                   ordinal_vars, clean_vars, chunk_vars,
                   parse_vars, toc_vars,
                   index_vars, doc_vars, calls_vars>>

\* the second loop is over: the last merged paragraph
SplitMergeEnd ==
    /\ pc = "merge"
    /\ para_pos = Len(paragraphs)
    /\ merged_paragraphs' = MergeEnd([merged_paragraphs |-> merged_paragraphs,
                                      temp_para |-> temp_para])
    /\ merged_counts' = IF Len(merged_paragraphs') > Len(merged_paragraphs)
                        THEN Append(merged_counts, temp_count) ELSE merged_counts
    /\ pc' = "split_done"
    /\ UNCHANGED <<split_text, scan_pos, current_para, paragraphs, para_pos, temp_para,
                   temp_count, ordinal_vars, clean_vars, chunk_vars,
                   parse_vars, toc_vars,
                   index_vars, doc_vars, calls_vars>>

NextSplit == SplitScanRun \/ SplitScanEnd \/ SplitMergePara \/ SplitMergeEnd

SpecSplit == InitSplit /\ [][NextSplit]_vars

----------------------------------------------------------------------------
(* The paragraph splitter again, on short texts: the empty one, blank      *)
(* ones, and ones of about 20 characters with and without a mark.          *)

ShortSegs ==
    { Rep("a", 17),               \* seventeen characters with no mark
      Lit(<<"b">>),
      Lit(<<" ">>),
      Lit(<<"NL">>),
      Lit(<<"juhao">>),
      Lit(<<"juhao", "NL", "NL">>) }   \* a mark and a blank line

ShortTexts == {Concat(segs) : segs \in SeqsUpTo(ShortSegs, MaxShortSegs)}

InitShortSplit ==
    /\ pc = "scan"
    /\ split_text \in ShortTexts
    /\ scan_pos = 0 /\ current_para = <<>> /\ paragraphs = <<>>
    /\ para_pos = 0 /\ temp_para = <<>> /\ merged_paragraphs = <<>>
    /\ temp_count = 0 /\ merged_counts = <<>>
    /\ OrdinalIdle /\ CleanIdle /\ ChunkIdle /\ ParseIdle /\ TocIdle
    /\ IndexIdle /\ DocIdle /\ CallsIdle

SpecShortSplit == InitShortSplit /\ [][NextSplit]_vars

----------------------------------------------------------------------------
(* The chunker, run on one volume: _process_volume_semantic, one chapter   *)
(* at a time.  A chapter is what the parser builds: a title, a content     *)
(* made of lines each followed by a newline, and a list of annotations.    *)

ChapterLineSamples ==
    { Cat(Rep("a", 43), Lit(<<"juhao">>)),      \* a sentence of 44 characters
      Cat(Rep("a", 49), Lit(<<"juhao">>)),      \* of 50
      Cat(Rep("b", 50), Lit(<<"juhao">>)),      \* of 51
      Cat(Rep("a", 759), Lit(<<"juhao">>)),     \* of 760
      Cat(Rep("b", 1499), Lit(<<"juhao">>)),    \* of 1500
      Rep("a", 1494),                           \* lines with no terminal mark
      Rep("a", 1495) }

\* chapter["content"] as the parser leaves it: line + "\n" for each line
RECURSIVE ContentOf(_)
ContentOf(ls) ==
    IF ls = <<>> THEN <<>> ELSE Cat(Cat(ls[1], Lit(<<"NL">>)), ContentOf(Tail(ls)))

ChapterSamples ==
    { [title |-> Lit(<<"yi", "dun", "a", "zhang">>),
       content |-> ContentOf(ls),
       annotations |-> anns] :
         ls \in SeqsUpTo(ChapterLineSamples, MaxChapterLines),
         anns \in {<<>>, <<Lit(<<"[", "zhu", "]", "a">>)>>} }

\* the chapters that follow the first one of a volume: a short and a long one
LaterChapterSamples ==
    { [title |-> Lit(<<"er", "dun", "b", "zhang">>),
       content |-> ContentOf(ls),
       annotations |-> <<>>] :
         ls \in { <<Cat(Rep("a", 43), Lit(<<"juhao">>))>>,
                  <<Cat(Rep("a", 759), Lit(<<"juhao">>)),
                    Cat(Rep("a", 759), Lit(<<"juhao">>))>> } }

VolumeSamples ==
    { [title |-> Lit(<<"LB", "juan", "zhi", "yi", "RB">>),
       volume_index |-> Lit(<<"1">>),
       chapters |-> cs] :
         cs \in {<<c>> : c \in ChapterSamples}
                \cup {<<c, d>> : c \in ChapterSamples, d \in LaterChapterSamples} }

InitChunk ==
    /\ pc = "volume"
    /\ volume \in VolumeSamples
    /\ chapter_pos = 0 /\ chunks = <<>> /\ chapter_chunks = <<>>
    /\ OrdinalIdle /\ CleanIdle /\ SplitIdle /\ ParseIdle /\ TocIdle
    /\ IndexIdle /\ DocIdle /\ CallsIdle

\* _process_volume_semantic: the volume title chunk
ChunkVolumeTitle ==
    /\ pc = "volume"
    /\ chunks' = Append(chunks, VolumeDoc(volume))
    /\ pc' = "chapters"
    /\ UNCHANGED <<volume, chapter_pos, chapter_chunks,
                   ordinal_vars, clean_vars, split_vars,
                   parse_vars, toc_vars,
                   index_vars, doc_vars, calls_vars>>

\* _process_volume_semantic: one turn of the loop over the volume's chapters
ChunkChapter ==
    /\ pc = "chapters"
    /\ chapter_pos < Len(volume.chapters)
    /\ LET got == ProcessChapterSemantic(volume.chapters[chapter_pos + 1], volume)
       IN /\ chapter_chunks' = Append(chapter_chunks, got)
          /\ chunks' = chunks \o got
    /\ chapter_pos' = chapter_pos + 1
    /\ UNCHANGED <<pc, volume, ordinal_vars, clean_vars, split_vars,
                   parse_vars, toc_vars,
                   index_vars, doc_vars, calls_vars>>

\* _process_volume_semantic returns
ChunkVolumeEnd ==
    /\ pc = "chapters"
    /\ chapter_pos = Len(volume.chapters)
    /\ pc' = "volume_done"
    /\ UNCHANGED <<chunk_vars, ordinal_vars, clean_vars, split_vars, parse_vars, toc_vars,
                   index_vars, doc_vars, calls_vars>>

NextChunk == ChunkVolumeTitle \/ ChunkChapter \/ ChunkVolumeEnd

SpecChunk == InitChunk /\ [][NextChunk]_vars

----------------------------------------------------------------------------
(* The parser, fed one line at a time.                                     *)

ParseLineSamples ==
    { Lit(<<"mu", "lu">>),                              \* the TOC marker
      PrefaceTitle,                                     \* the preface title
      Lit(<<"LB", "juan", "zhi", "yi", "RB">>),         \* a volume heading
      Lit(<<" ", "LB", "juan", "zhi", "shi", "er", "RB">>),  \* another, indented
      Lit(<<"LB", "juan", "zhi", "yi", "RB", "a">>),    \* one with text after the bracket
      Lit(<<"yi", "dun", "a", "zhang">>),               \* a chapter heading
      Lit(<<"[", "zhu", "]", "a">>),                    \* an annotation
      Lit(<<"[", "zhu", "]", "a", "zhang">>),           \* a tagged line with zhang in it
      Lit(<<"a", "juhao">>),                            \* a plain line
      Lit(<<" ">>) }                                    \* a blank line

InitParse ==
    /\ pc = "parse"
    /\ parse_lines = <<>>
    /\ structure = NewStructure
    /\ current_section = "preface"
    /\ OrdinalIdle /\ CleanIdle /\ SplitIdle /\ ChunkIdle /\ TocIdle
    /\ IndexIdle /\ DocIdle /\ CallsIdle

\* one turn of the loop over the lines of the text
ParseNextLine ==
    /\ pc = "parse"
    /\ Len(parse_lines) < MaxParseLines
    /\ \E raw \in ParseLineSamples :
          LET got == ParseLine(structure, current_section, raw)
          IN /\ parse_lines' = Append(parse_lines, raw)
             /\ structure' = got.structure
             /\ current_section' = got.current_section
    /\ UNCHANGED <<pc, ordinal_vars, clean_vars, split_vars, chunk_vars, toc_vars,
                   index_vars, doc_vars, calls_vars>>

\* the text is over: return structure
ParseEnd ==
    /\ pc = "parse"
    /\ pc' = "parse_done"
    /\ UNCHANGED <<parse_vars, ordinal_vars, clean_vars, split_vars, chunk_vars, toc_vars,
                   index_vars, doc_vars, calls_vars>>

NextParse == ParseNextLine \/ ParseEnd

SpecParse == InitParse /\ [][NextParse]_vars

\* the loop is a for over a finite list: a turn that can be taken is taken
SpecParseLive == SpecParse /\ WF_vars(NextParse)

----------------------------------------------------------------------------
(* _create_toc_chunks, run line by line on short raw texts.                *)

TocLineSamples ==
    { Lit(<<"mu", "lu">>),                                        \* the TOC marker
      Lit(<<"di", "yi", "zhang", ".", ".", ".", ".", "3">>),      \* an entry
      Lit(<<"juan", "zhi", "yi">>),                               \* no volume heading
      Lit(<<"LB", "juan", "zhi", "yi", "RB">>),                   \* a volume heading
      Lit(<<"1", "2">>),                                          \* a page number
      Lit(<<"a", ".", ".", "3">>),                                \* two dots only
      Lit(<<"b">>) }                                              \* a single character

TocTexts == {Join(Lit(<<"NL">>), ls) : ls \in SeqsUpTo(TocLineSamples, MaxTocLines)}

InitToc ==
    /\ pc = "toc"
    /\ full_text \in TocTexts
    /\ toc_pos = 0 /\ in_toc = FALSE /\ toc_lines = <<>> /\ toc_chunks = <<>>
    /\ OrdinalIdle /\ CleanIdle /\ SplitIdle /\ ChunkIdle /\ ParseIdle
    /\ IndexIdle /\ DocIdle /\ CallsIdle

\* one turn of the loop over the lines of full_text
TocNextLine ==
    /\ pc = "toc"
    /\ toc_pos < Len(Split(full_text, "NL"))
    /\ LET st == TocLine([in_toc |-> in_toc, toc_lines |-> toc_lines, stop |-> FALSE],
                         Split(full_text, "NL")[toc_pos + 1])
       IN /\ in_toc' = st.in_toc
          /\ toc_lines' = st.toc_lines
          /\ pc' = IF st.stop THEN "toc_end" ELSE "toc"
    /\ toc_pos' = toc_pos + 1
    /\ UNCHANGED <<full_text, toc_chunks,
                   ordinal_vars, clean_vars, split_vars, chunk_vars, parse_vars,
                   index_vars, doc_vars, calls_vars>>

\* the loop ran out of lines
TocLinesOver ==
    /\ pc = "toc"
    /\ toc_pos = Len(Split(full_text, "NL"))
    /\ pc' = "toc_end"
    /\ UNCHANGED <<toc_vars, ordinal_vars, clean_vars, split_vars, chunk_vars, parse_vars,
                   index_vars, doc_vars, calls_vars>>

\* after the loop: the chunk, if any line was kept
TocReturn ==
    /\ pc = "toc_end"
    /\ toc_chunks' = TocEnd(toc_lines)
    /\ pc' = "toc_done"
    /\ UNCHANGED <<full_text, toc_pos, in_toc, toc_lines,
                   ordinal_vars, clean_vars, split_vars, chunk_vars, parse_vars,
                   index_vars, doc_vars, calls_vars>>

NextToc == TocNextLine \/ TocLinesOver \/ TocReturn

SpecToc == InitToc /\ [][NextToc]_vars

----------------------------------------------------------------------------
(* RAGService.process_zengshan_document on a document of a few pages.      *)

DocPageSamples ==
    { Lit(<<"mu", "lu">>),                                   \* the TOC marker
      Lit(<<"mu", "lu", "NL", "a", "juhao">>),               \* the same and an entry
      PrefaceTitle,
      Lit(<<"LB", "juan", "zhi", "yi", "RB">>),
      Lit(<<"LB", "juan", "zhi", "er", "RB">>),
      Lit(<<"yi", "dun", "a", "zhang">>),                    \* a chapter heading
      Lit(<<"[", "zhu", "]", "a">>),                         \* an annotation
      Lit(<<" ", "b", " ", " ", "a", "juhao", "NL", "7">>),  \* a line and a page number
      Cat(Cat(Rep("a", 800), Lit(<<"juhao">>)),              \* two sentences of 801
          Cat(Rep("b", 800), Lit(<<"juhao">>))),
      <<>> }                                                 \* a page with no text

InitDoc ==
    /\ pc = "extract"
    /\ pdf_pages \in SeqsUpTo(DocPageSamples, MaxDocPages)
    /\ page_pos = 0 /\ vector_store = <<>> /\ response = NoResponse /\ warnings = 0
    /\ OrdinalIdle /\ CleanIdle /\ SplitIdle /\ ChunkIdle /\ ParseIdle /\ TocIdle
    /\ IndexIdle /\ CallsIdle

doc_rest == <<ordinal_vars, clean_vars, split_vars, index_vars, calls_vars,
              volume, chapter_pos, chapter_chunks, parse_lines, current_section,
              toc_pos, in_toc, toc_lines, toc_chunks>>

\* extract_text_from_pdf: one turn of the loop over the pages
DocExtractPage ==
    /\ pc = "extract"
    /\ page_pos < Len(pdf_pages)
    /\ full_text' = ExtractPage(full_text, pdf_pages[page_pos + 1])
    /\ page_pos' = page_pos + 1
    /\ UNCHANGED <<pc, pdf_pages, structure, chunks, vector_store, response, warnings,
                   doc_rest>>

\* a slip: what was read before the failure is parsed and kept
DocExtractFailsPartial ==
    /\ pc = "extract"
    /\ response' = ExceptionRaised
    /\ structure' = ParseDocumentStructure(full_text)
    /\ pc' = "extract_failed"
    /\ UNCHANGED <<pdf_pages, page_pos, full_text, chunks, vector_store,
                   warnings, doc_rest>>

\* extract_text_from_pdf: pdfplumber.open or extract_text raises; the except
\* clauses of extract_text_from_pdf and of process_zengshan_document raise
\* again: full_text is lost and no document_data is returned
DocExtractFails ==
    /\ pc = "extract"
    /\ response' = ExceptionRaised
    /\ full_text' = <<>>
    /\ pc' = "extract_failed"
    /\ UNCHANGED <<pdf_pages, page_pos, structure, chunks, vector_store,
                   warnings, doc_rest>>

\* extract_text_from_pdf: the pages are over; the structure is parsed and
\* document_data returned
DocParse ==
    /\ pc = "extract"
    /\ page_pos = Len(pdf_pages)
    /\ structure' = ParseDocumentStructure(full_text)
    /\ pc' = "chunk"
    /\ UNCHANGED <<pdf_pages, page_pos, full_text, chunks, vector_store, response,
                   warnings, doc_rest>>

\* create_semantic_chunks
DocCreateChunks ==
    /\ pc = "chunk"
    /\ chunks' = CreateSemanticChunks([full_text |-> full_text, structure |-> structure])
    /\ pc' = "store"
    /\ UNCHANGED <<pdf_pages, page_pos, full_text, structure, vector_store, response,
                   warnings, doc_rest>>

\* the metadata update, _add_documents_to_vector_store and the response
DocStore ==
    /\ pc = "store"
    /\ chunks' = StampChunks(chunks)
    /\ IF chunks = <<>>
       THEN /\ warnings' = warnings + 1
            /\ UNCHANGED vector_store
       ELSE /\ vector_store' = vector_store \o StampChunks(chunks)
            /\ UNCHANGED warnings
    /\ response' = SuccessResponse(structure, chunks)
    /\ pc' = "doc_done"
    /\ UNCHANGED <<pdf_pages, page_pos, full_text, structure, doc_rest>>

\* vector_store.add_documents raises, before or after it has stored the batch
DocStoreFails ==
    /\ pc = "store"
    /\ chunks # <<>>
    /\ chunks' = StampChunks(chunks)
    /\ \E stored \in {<<>>, StampChunks(chunks)} : vector_store' = vector_store \o stored
    /\ response' = ExceptionRaised
    /\ pc' = "store_failed"
    /\ UNCHANGED <<pdf_pages, page_pos, full_text, structure, warnings, doc_rest>>

NextDoc ==
    \/ DocExtractPage \/ DocExtractFails \/ DocParse
    \/ DocCreateChunks \/ DocStore \/ DocStoreFails

SpecDoc == InitDoc /\ [][NextDoc]_vars

----------------------------------------------------------------------------
(* _extract_chapter_index, applied to a title. *)

MaxTitleLen == 3

TitleAlphabet == {"yi", "shi", "dun", "LP", "RP", "0", "1", ".", "c1", "zhang", "a"}

IndexTitles == {Lit(cs) : cs \in SeqsUpTo(TitleAlphabet, MaxTitleLen)}

InitIndex ==
    /\ pc = "index"
    /\ index_title \in IndexTitles
    /\ index_result = <<>>
    /\ OrdinalIdle /\ CleanIdle /\ SplitIdle /\ ChunkIdle /\ ParseIdle /\ TocIdle
    /\ DocIdle /\ CallsIdle

ExtractIndex ==
    /\ pc = "index"
    /\ index_result' = ExtractChapterIndex(index_title)
    /\ pc' = "index_done"
    /\ UNCHANGED <<index_title, ordinal_vars, clean_vars, split_vars, chunk_vars,
                   parse_vars, toc_vars, doc_vars, calls_vars>>

NextIndex == ExtractIndex

SpecIndex == InitIndex /\ [][NextIndex]_vars

----------------------------------------------------------------------------
(* Two invocations of _parse_document_structure and create_semantic_chunks *)
(* on one instance, their turns of the loop interleaved.  calls[i] holds   *)
(* the locals of the i-th invocation.                                      *)

MaxCallLines == 2

CallLineSamples ==
    { PrefaceTitle,
      Lit(<<"LB", "juan", "zhi", "yi", "RB">>),
      Lit(<<"yi", "dun", "a", "zhang">>),
      Lit(<<"a", "juhao">>) }

CallInputs == SeqsUpTo(CallLineSamples, MaxCallLines)

\* the locals of an invocation on the lines ls, before the loop
NewCall(ls) ==
    [lines |-> ls, pos |-> 0, structure |-> NewStructure,
     current_section |-> "preface", chunks |-> <<>>, pc |-> "parse"]

InitCalls ==
    /\ pc = "calls"
    /\ \E l1 \in CallInputs, l2 \in CallInputs : calls = <<NewCall(l1), NewCall(l2)>>
    /\ instance = NewInstance
    /\ OrdinalIdle /\ CleanIdle /\ SplitIdle /\ ChunkIdle /\ ParseIdle /\ TocIdle
    /\ IndexIdle /\ DocIdle

calls_rest == <<pc, ordinal_vars, clean_vars, split_vars, chunk_vars, parse_vars,
                toc_vars, index_vars, doc_vars>>

\* a slip: current_section is kept in one place for both invocations
CallParseLineSharedSection(i) ==
    /\ calls[i].pc = "parse"
    /\ calls[i].pos < Len(calls[i].lines)
    /\ LET c == calls[i]
           got == ParseLine(c.structure, calls[1].current_section, c.lines[c.pos + 1])
       IN calls' = [[calls EXCEPT ![i].structure = got.structure,
                                  ![i].pos = c.pos + 1]
                       EXCEPT ![1].current_section = got.current_section]
    /\ UNCHANGED <<instance, calls_rest>>

\* one turn of the loop of the i-th invocation
CallParseLine(i) ==
    /\ calls[i].pc = "parse"
    /\ calls[i].pos < Len(calls[i].lines)
    /\ LET c == calls[i]
           got == ParseLine(c.structure, c.current_section, c.lines[c.pos + 1])
       IN calls' = [calls EXCEPT ![i].structure = got.structure,
                                 ![i].current_section = got.current_section,
                                 ![i].pos = c.pos + 1]
    /\ UNCHANGED <<instance, calls_rest>>

\* the loop of the i-th invocation is over: create_semantic_chunks on what it
\* returns
CallCreateChunks(i) ==
    /\ calls[i].pc = "parse"
    /\ calls[i].pos = Len(calls[i].lines)
    /\ calls' = [calls EXCEPT
                    ![i].chunks = CreateSemanticChunks(
                                      [full_text |-> Join(Lit(<<"NL">>), calls[i].lines),
                                       structure |-> calls[i].structure]),
                    ![i].pc = "done"]
    /\ UNCHANGED <<instance, calls_rest>>

NextCalls == \E i \in 1..2 : CallParseLine(i) \/ CallCreateChunks(i)

SpecCalls == InitCalls /\ [][NextCalls]_vars

----------------------------------------------------------------------------
(* Claim about the volumes the parser finds.                               *)

IsVolumeMarker(raw) == MatchVolume(Strip(raw))

VolumeMarkersRead == SelectSeq(parse_lines, IsVolumeMarker)

\* C1: whatever lines surround them (preface, TOC, chapter, annotation, plain),
\* the volumes list of the structure has exactly one entry per well-formed
\* volume-marker line read, in the order of the lines.
C1_AsClaimed ==
    /\ Len(structure.volumes) = Len(VolumeMarkersRead)
    /\ \A i \in 1..Len(VolumeMarkersRead) :
          structure.volumes[i].title = Strip(VolumeMarkersRead[i])

----------------------------------------------------------------------------
(* Claims about the TOC chunk.                                             *)

TocRawLines == Split(full_text, "NL")

IsTocMarker(raw) == MatchToc(Strip(raw))

\* the place of the first TOC marker, or 0
FirstTocMarker ==
    IF \E i \in 1..Len(TocRawLines) : IsTocMarker(TocRawLines[i])
    THEN CHOOSE i \in 1..Len(TocRawLines) :
            /\ IsTocMarker(TocRawLines[i])
            /\ \A j \in 1..(i - 1) : ~IsTocMarker(TocRawLines[j])
    ELSE 0

\* the place of the first volume heading after the first TOC marker, or one
\* past the last line
FirstVolumeAfterToc ==
    IF \E i \in (FirstTocMarker + 1)..Len(TocRawLines) : IsVolumeMarker(TocRawLines[i])
    THEN CHOOSE i \in (FirstTocMarker + 1)..Len(TocRawLines) :
            /\ IsVolumeMarker(TocRawLines[i])
            /\ \A j \in (FirstTocMarker + 1)..(i - 1) : ~IsVolumeMarker(TocRawLines[j])
    ELSE Len(TocRawLines) + 1

\* a line survives when, its leaders stripped, it has more than one character
\* and is not a number, and is not a TOC marker itself
Survives(raw) ==
    LET c == Strip(StripLeaders(Strip(raw)))
    IN StrLen(c) > 1 /\ ~AllDigits(c) /\ ~IsTocMarker(raw)

StripEntry(raw) == Strip(StripLeaders(Strip(raw)))

\* the lines strictly between the two places that survive, stripped
RECURSIVE EntriesFrom(_, _)
EntriesFrom(i, j) ==
    IF i >= j THEN <<>>
    ELSE IF Survives(TocRawLines[i])
         THEN <<StripEntry(TocRawLines[i])>> \o EntriesFrom(i + 1, j)
         ELSE EntriesFrom(i + 1, j)

EntriesBetween ==
    IF FirstTocMarker = 0 THEN <<>>
    ELSE EntriesFrom(FirstTocMarker + 1, FirstVolumeAfterToc)

\* the lines of the chunk's text below its header
ChunkEntries(doc) == Split(Drop(doc.page_content, StrLen(TocHeader)), "NL")

TocMarkerLine == Lit(<<"mu", "lu">>)
TocEntryLine == Lit(<<"di", "yi", "zhang", ".", ".", ".", ".", "3">>)
TocEntryStripped == Lit(<<"di", "yi", "zhang">>)
BareVolumeLine == Lit(<<"juan", "zhi", "yi">>)
VolumeHeadingLine == Lit(<<"LB", "juan", "zhi", "yi", "RB">>)

\* the chunk holds only the surviving lines strictly between the first TOC
\* marker and the first volume heading that follows it
TocChunkIsBetween ==
    pc = "toc_done" =>
        IF EntriesBetween = <<>> THEN toc_chunks = <<>>
        ELSE /\ Len(toc_chunks) = 1
             /\ StartsWith(toc_chunks[1].page_content, TocHeader)
             /\ ChunkEntries(toc_chunks[1]) = EntriesBetween

\* C6 as stated: on the lines mu-lu, di-yi-zhang....3, juan-zhi-yi one chunk is
\* emitted that holds di-yi-zhang, leaders and page number stripped, and not
\* the line juan-zhi-yi; and a chunk holds only lines between the TOC marker
\* and the first volume heading after it.
C6_AsClaimed ==
    /\ (pc = "toc_done" /\ TocRawLines = <<TocMarkerLine, TocEntryLine, BareVolumeLine>>)
          => /\ Len(toc_chunks) = 1
             /\ \E i \in 1..Len(ChunkEntries(toc_chunks[1])) :
                   ChunkEntries(toc_chunks[1])[i] = TocEntryStripped
             /\ \A i \in 1..Len(ChunkEntries(toc_chunks[1])) :
                   ChunkEntries(toc_chunks[1])[i] # BareVolumeLine
    /\ TocChunkIsBetween

\* C6, amended: the same with the volume heading in brackets, the form the
\* volume pattern matches: one chunk, whose only entry is di-yi-zhang; the
\* unbracketed line juan-zhi-yi is no volume heading and is kept as an entry;
\* and a chunk holds only the surviving lines strictly between the first TOC
\* marker and the first volume heading after it, to the end of the text when no
\* heading follows.
C6_TocChunk ==
    /\ (pc = "toc_done" /\ TocRawLines = <<TocMarkerLine, TocEntryLine, VolumeHeadingLine>>)
          => /\ Len(toc_chunks) = 1
             /\ ChunkEntries(toc_chunks[1]) = <<TocEntryStripped>>
    /\ (pc = "toc_done" /\ TocRawLines = <<TocMarkerLine, TocEntryLine, BareVolumeLine>>)
          => /\ Len(toc_chunks) = 1
             /\ ChunkEntries(toc_chunks[1]) = <<TocEntryStripped, BareVolumeLine>>
    /\ TocChunkIsBetween

C6_Witness ==
    /\ pc = "toc_done"
    /\ TocRawLines = <<TocMarkerLine, TocEntryLine, VolumeHeadingLine>>
    /\ Len(toc_chunks) = 1
    /\ toc_chunks[1].page_content = Cat(TocHeader, TocEntryStripped)

----------------------------------------------------------------------------
(* Claims about the chunks of a chapter.                                   *)

\* the built content of the c-th chapter of the volume
Built(c) == BuildChapterContent(volume.chapters[c])

\* the chapters _process_chapter_semantic has been called on
ChaptersDone == 1..Len(chapter_chunks)

\* those of them whose built content exceeds 1500 characters
LargeChaptersDone == {c \in ChaptersDone : StrLen(Built(c)) > ChapterThreshold}

\* the merged paragraphs the splitter returns for the c-th chapter
Groups(c) == SplitClassicalParagraphs(Built(c))

\* list of lists to list
RECURSIVE Flatten(_)
Flatten(lists) == IF lists = <<>> THEN <<>> ELSE lists[1] \o Flatten(Tail(lists))

(* C2: a chapter whose built content is at most 1500 characters long, 1500  *)
(* included, gives exactly one chunk, of content_type chapter, whose text   *)
(* is the built content; it gives no chapter-paragraph chunk.               *)
C2_SmallChapterOneChunk ==
    \A c \in ChaptersDone :
        StrLen(Built(c)) <= ChapterThreshold =>
            /\ Len(chapter_chunks[c]) = 1
            /\ chapter_chunks[c][1].metadata.content_type = "zhangjie"
            /\ chapter_chunks[c][1].metadata.block_type = "chapter"
            /\ chapter_chunks[c][1].page_content = Built(c)

\* a chapter of exactly 1500 characters was chunked, into one chunk
C2_Witness ==
    \E c \in ChaptersDone :
        /\ StrLen(Built(c)) = ChapterThreshold
        /\ Len(chapter_chunks[c]) = 1

(* C3, as claimed: the chapter-paragraph chunks of a chapter longer than    *)
(* 1500 characters carry increasing paragraph_index values, the first of    *)
(* them 1.                                                                  *)
C3_AsClaimed ==
    \A c \in LargeChaptersDone :
        LET cc == chapter_chunks[c]
        IN /\ cc # <<>> => cc[1].metadata.paragraph_index = 1
           /\ \A j, k \in 1..Len(cc) :
                 j < k => cc[j].metadata.paragraph_index < cc[k].metadata.paragraph_index

(* C3, amended: the paragraph_index of a chapter-paragraph chunk is the     *)
(* place, counted from 1, of its paragraph among the merged paragraphs the  *)
(* splitter returned, the filtered ones counted too: the values are at      *)
(* least 1, pairwise distinct and increasing, and the first chunk carries 1 *)
(* exactly when the first merged paragraph is longer than 50 characters.    *)
C3_ParagraphIndexIsPlace ==
    \A c \in LargeChaptersDone :
        LET cc == chapter_chunks[c]
        IN /\ \A k \in 1..Len(cc) :
                 /\ cc[k].metadata.content_type = "zhangjieduanluo"
                 /\ cc[k].metadata.paragraph_index \in 1..Len(Groups(c))
                 /\ cc[k].page_content = Strip(Groups(c)[cc[k].metadata.paragraph_index])
           /\ \A j, k \in 1..Len(cc) :
                 j < k => cc[j].metadata.paragraph_index < cc[k].metadata.paragraph_index
           /\ cc # <<>> =>
                 (cc[1].metadata.paragraph_index = 1
                    <=> StrLen(Strip(Groups(c)[1])) > ShortParagraphLen)

\* the first chunk of a large chapter carries paragraph_index 2
C3_Witness ==
    \E c \in LargeChaptersDone :
        /\ chapter_chunks[c] # <<>>
        /\ chapter_chunks[c][1].metadata.paragraph_index = 2

(* C4: no chapter-paragraph chunk has a trimmed text of 50 characters or    *)
(* fewer: of the merged paragraphs of a large chapter, exactly those whose  *)
(* trimmed length exceeds 50 are emitted, each as one chunk.                *)
C4_ShortParagraphsFiltered ==
    /\ \A k \in 1..Len(chunks) :
          chunks[k].metadata.content_type = "zhangjieduanluo"
              => StrLen(Strip(chunks[k].page_content)) > ShortParagraphLen
    /\ \A c \in LargeChaptersDone :
          /\ \A i \in 1..Len(Groups(c)) :
                Cardinality({k \in 1..Len(chapter_chunks[c]) :
                               /\ chapter_chunks[c][k].metadata.paragraph_index = i
                               /\ chapter_chunks[c][k].page_content = Strip(Groups(c)[i])})
                  = IF StrLen(Strip(Groups(c)[i])) > ShortParagraphLen THEN 1 ELSE 0
          /\ \A k \in 1..Len(chapter_chunks[c]) :
                chapter_chunks[c][k].metadata.paragraph_index \in 1..Len(Groups(c))

\* a merged paragraph of exactly 50 characters was dropped, another one kept
C4_Witness ==
    \E c \in LargeChaptersDone :
        /\ \E i \in 1..Len(Groups(c)) : StrLen(Strip(Groups(c)[i])) = ShortParagraphLen
        /\ Len(chapter_chunks[c]) = Len(Groups(c)) - 1

(* C5, as claimed: a volume with a chapter longer than 1500 characters      *)
(* gives the volume-title chunk and then at least two chapter-paragraph     *)
(* chunks for that chapter.                                                 *)
C5_AsClaimed ==
    pc = "volume_done" =>
        \A c \in LargeChaptersDone :
            /\ chunks[1].metadata.content_type = "juanbiaoti"
            /\ Len(chapter_chunks[c]) >= 2

(* C5, amended: a volume with a chapter longer than 1500 characters gives   *)
(* the volume-title chunk first and then, for that chapter, at least one    *)
(* chapter-paragraph chunk and no whole-chapter chunk.                      *)
C5_LargeChapterParagraphChunks ==
    pc = "volume_done" =>
        /\ chunks = <<VolumeDoc(volume)>> \o Flatten(chapter_chunks)
        /\ Len(chapter_chunks) = Len(volume.chapters)
        /\ \A c \in LargeChaptersDone :
              /\ chunks[1].metadata.content_type = "juanbiaoti"
              /\ Len(chapter_chunks[c]) >= 1
              /\ \A k \in 1..Len(chapter_chunks[c]) :
                    chapter_chunks[c][k].metadata.content_type = "zhangjieduanluo"

\* a chapter longer than 1500 characters gave exactly one chunk
C5_Witness ==
    /\ pc = "volume_done"
    /\ \E c \in LargeChaptersDone : Len(chapter_chunks[c]) = 1

----------------------------------------------------------------------------
(* Claims about the second loop of _split_classical_paragraphs.            *)

RECURSIVE SumTo(_, _)
SumTo(counts, i) == IF i = 0 THEN 0 ELSE counts[i] + SumTo(counts, i - 1)

\* the place in paragraphs of the paragraph that did not fit when the i-th
\* merged paragraph was appended; past the end for the one appended after the loop
TriggerPos(i) == SumTo(merged_counts, i) + 1

\* the merged paragraphs the second loop appended because the next one did not fit
FlushedInLoop == {i \in 1..Len(merged_paragraphs) : TriggerPos(i) <= Len(paragraphs)}

(* C7, as claimed: every merged paragraph appended because the next         *)
(* paragraph did not fit is shorter than 800 plus that next paragraph.      *)
C7_AsClaimed ==
    pc \in {"merge", "split_done"} =>
        \A i \in FlushedInLoop :
            StrLen(merged_paragraphs[i])
                < MergeThreshold + StrLen(paragraphs[TriggerPos(i)])

(* C7, amended: every merged paragraph that joins two or more paragraphs    *)
(* and was appended because the next paragraph did not fit is shorter than  *)
(* 800 plus that next paragraph (it is at most 800 long); one that is a     *)
(* single paragraph is as long as that paragraph, whatever its length.      *)
C7_MergedGroupBound ==
    pc \in {"merge", "split_done"} =>
        \A i \in FlushedInLoop :
            /\ merged_counts[i] >= 2 =>
                  /\ StrLen(merged_paragraphs[i])
                         < MergeThreshold + StrLen(paragraphs[TriggerPos(i)])
                  /\ StrLen(merged_paragraphs[i]) <= MergeThreshold
            /\ merged_counts[i] = 1 =>
                  merged_paragraphs[i] = paragraphs[TriggerPos(i) - 1]

\* two paragraphs were joined to exactly 800 characters and a third did not fit
C7_Witness ==
    /\ pc = "split_done"
    /\ \E i \in FlushedInLoop :
          /\ merged_counts[i] = 2
          /\ StrLen(merged_paragraphs[i]) = MergeThreshold

(* C8: the second loop drops, repeats and reorders nothing: the merged      *)
(* paragraphs joined with newlines are the paragraphs joined with newlines, *)
(* each paragraph in exactly one of them, while the loop runs (counting     *)
(* temp_para as the last one) and when it is over.                          *)
C8_MergeKeepsUnits ==
    /\ pc = "merge" =>
          /\ Join(Lit(<<"NL">>),
                  IF temp_para = <<>> THEN merged_paragraphs
                  ELSE Append(merged_paragraphs, temp_para))
                = Join(Lit(<<"NL">>), SubSeq(paragraphs, 1, para_pos))
          /\ SumTo(merged_counts, Len(merged_counts)) + temp_count = para_pos
    /\ pc = "split_done" =>
          /\ Join(Lit(<<"NL">>), merged_paragraphs) = Join(Lit(<<"NL">>), paragraphs)
          /\ Len(merged_counts) = Len(merged_paragraphs)
          /\ SumTo(merged_counts, Len(merged_counts)) = Len(paragraphs)
          /\ \A i \in 1..Len(merged_counts) : merged_counts[i] >= 1

\* three paragraphs ended in two merged paragraphs
C8_Witness ==
    /\ pc = "split_done"
    /\ Len(paragraphs) = 3
    /\ merged_counts = <<2, 1>>

----------------------------------------------------------------------------
(* C9: _clean_page_text is idempotent: cleaning the output of a first      *)
(* cleaning again yields exactly the same text, line for line.             *)
C9_CleanIdempotent ==
    Len(cleaned) = 2 =>
        /\ cleaned[2] = cleaned[1]
        /\ Split(cleaned[2], "NL") = Split(cleaned[1], "NL")

\* a page whose first cleaning dropped a page number and collapsed whitespace
C9_Witness ==
    /\ Len(cleaned) = 2
    /\ text = Lit(<<"1", "NL", "a", "TAB", "1">>)
    /\ cleaned[1] = Lit(<<"a", " ", "1">>)

(* C10: _chinese_to_number maps each of the ten numerals to "1" .. "10"    *)
(* and returns every other token, multi-character ones included, as it is. *)
C10_OrdinalTotal ==
    pc = "ordinal_done" =>
        /\ chinese_num = Lit(<<"yi">>)  => number = Lit(<<"1">>)
        /\ chinese_num = Lit(<<"er">>)  => number = Lit(<<"2">>)
        /\ chinese_num = Lit(<<"san">>) => number = Lit(<<"3">>)
        /\ chinese_num = Lit(<<"si">>)  => number = Lit(<<"4">>)
        /\ chinese_num = Lit(<<"wu">>)  => number = Lit(<<"5">>)
        /\ chinese_num = Lit(<<"liu">>) => number = Lit(<<"6">>)
        /\ chinese_num = Lit(<<"qi">>)  => number = Lit(<<"7">>)
        /\ chinese_num = Lit(<<"ba">>)  => number = Lit(<<"8">>)
        /\ chinese_num = Lit(<<"jiu">>) => number = Lit(<<"9">>)
        /\ chinese_num = Lit(<<"shi">>) => number = Lit(<<"1", "0">>)
        /\ chinese_num \notin {Lit(<<c>>) : c \in Numerals} => number = chinese_num

\* the two-character token shi-yi went through unchanged
C10_Witness ==
    /\ pc = "ordinal_done"
    /\ chinese_num = Lit(<<"shi", "yi">>)
    /\ number = Lit(<<"shi", "yi">>)

----------------------------------------------------------------------------
(* Claims about the splitter on short texts.                               *)

HasTerminalMark(t) == \E i \in 1..Len(t) : t[i].ch \in TerminalMarks

\* a text of fewer than 20 characters with none of the four terminal marks
ShortUnmarked(t) == StrLen(t) < SemanticUnitLen /\ ~HasTerminalMark(t)

\* a chapter and a volume to hand the groups to _split_large_chapter with
AnyChapter ==
    [title |-> Lit(<<"yi", "dun", "a", "zhang">>), content |-> <<>>, annotations |-> <<>>]
AnyVolume ==
    [title |-> Lit(<<"LB", "juan", "zhi", "yi", "RB">>), volume_index |-> Lit(<<"1">>),
     chapters |-> <<>>]

\* C11 as stated: the empty string gives no group; every text of fewer than 20
\* characters with no terminal mark gives exactly one group, the trimmed text,
\* and the filter of _split_large_chapter makes no chunk of it.
C11_AsClaimed ==
    pc = "split_done" =>
        /\ split_text = <<>> => merged_paragraphs = <<>>
        /\ (split_text # <<>> /\ ShortUnmarked(split_text)) =>
              /\ merged_paragraphs = <<Strip(split_text)>>
              /\ ParagraphDocsFrom(merged_paragraphs, 0, AnyChapter, AnyVolume) = <<>>

\* C11, amended: the empty string gives no group, and so does a text made of
\* whitespace only; every other text of fewer than 20 characters with no
\* terminal mark gives exactly one group, the trimmed text; in all these cases
\* the filter of _split_large_chapter makes no chunk of what is returned.
C11_ShortText ==
    pc = "split_done" =>
        /\ Strip(split_text) = <<>> => merged_paragraphs = <<>>
        /\ (Strip(split_text) # <<>> /\ ShortUnmarked(split_text)) =>
              merged_paragraphs = <<Strip(split_text)>>
        /\ ShortUnmarked(split_text) =>
              ParagraphDocsFrom(merged_paragraphs, 0, AnyChapter, AnyVolume) = <<>>

\* a text of 19 characters with no mark, a space at its end, came back as one
\* group of 18 characters
C11_Witness ==
    /\ pc = "split_done"
    /\ split_text = Concat(<<Rep("a", 17), Lit(<<"b">>), Lit(<<" ">>)>>)
    /\ merged_paragraphs = <<Cat(Rep("a", 17), Lit(<<"b">>))>>

----------------------------------------------------------------------------
(* Claims about the chunks of a whole document.                            *)

\* create_semantic_chunks has returned
ChunksMade == pc \in {"store", "store_failed", "doc_done"}

ContentType(k) == chunks[k].metadata.content_type

\* the places of the chunks of the content types in types
PlacesOf(types) == {k \in 1..Len(chunks) : ContentType(k) \in types}

\* the i-th smallest member of a set of numbers
Nth(S, i) == CHOOSE k \in S : Cardinality({j \in S : j < k}) = i - 1

ChapterTypes == {"zhangjie", "zhangjieduanluo"}

\* preface chunks come first, then TOC chunks, then all the others
Rank(k) ==
    CASE ContentType(k) = "xuyan" -> 0
      [] ContentType(k) = "mulu" -> 1
      [] OTHER -> 2

\* the number of the volume a chunk at place k belongs to by its place: the
\* number of volume-title chunks at or before it
VolumeAt(k) == Cardinality({j \in PlacesOf({"juanbiaoti"}) : j <= k})

\* the places of the chapter chunks that follow the v-th volume title and
\* precede the next one
SegmentOf(v) == {k \in PlacesOf(ChapterTypes) : VolumeAt(k) = v}

\* the chapter chunks of the v-th volume are those of its chapters in source
\* order: they can be assigned to the chapters, by title, without ever going
\* back to an earlier chapter; a whole-chapter chunk is alone in its chapter,
\* and paragraph chunks of one chapter are in paragraph order
ChaptersInOrder(v) ==
    LET seg == SegmentOf(v)
        chapters == structure.volumes[v].chapters
    IN \E a \in [seg -> 1..Len(chapters)] :
          /\ \A k \in seg : chunks[k].metadata.chapter_title = chapters[a[k]].title
          /\ \A j, k \in seg :
                j < k => /\ a[j] <= a[k]
                         /\ a[j] = a[k] =>
                               /\ ContentType(j) = "zhangjieduanluo"
                               /\ ContentType(k) = "zhangjieduanluo"
                               /\ chunks[j].metadata.paragraph_index
                                     < chunks[k].metadata.paragraph_index

C13_ChunksTrimmed ==
    ChunksMade =>
        \A k \in 1..Len(chunks) :
            /\ chunks[k].page_content # <<>>
            /\ Strip(chunks[k].page_content) = chunks[k].page_content

\* a chapter whose content, a line with its newline, was stripped at the end
C13_Witness ==
    /\ pc = "store"
    /\ \E k \in 1..Len(chunks) :
          /\ ContentType(k) = "zhangjie"
          /\ chunks[k].page_content
               = Lit(<<"yi", "dun", "a", "zhang", "NL", "NL", "b", " ", "a", "juhao">>)

\* no line of the text extracted is a volume marker
NoVolumeMarker ==
    \A i \in 1..Len(Split(full_text, "NL")) : ~IsVolumeMarker(Split(full_text, "NL")[i])

\* C16 as stated: a document with no volume marker has no volumes, and its
\* only chunk, if any, is the one preface chunk of a recognized preface.
C16_AsClaimed ==
    (ChunksMade /\ NoVolumeMarker) =>
        /\ structure.volumes = <<>>
        /\ PlacesOf({"xuyan"}) = 1..Len(chunks)
        /\ Len(chunks) <= 1
        /\ structure.preface = <<>> => chunks = <<>>

\* C16, amended: a document with no volume marker has no volumes, and its
\* chunks are at most the one preface chunk of a recognized preface and, when
\* a TOC marker was read and lines after it survive, the one TOC chunk.
C16_NoVolumes ==
    (ChunksMade /\ NoVolumeMarker) =>
        /\ structure.volumes = <<>>
        /\ PlacesOf({"xuyan", "mulu"}) = 1..Len(chunks)
        /\ Cardinality(PlacesOf({"xuyan"})) = IF structure.preface # <<>> THEN 1 ELSE 0
        /\ Cardinality(PlacesOf({"mulu"})) <= 1
        /\ ~structure.has_toc => PlacesOf({"mulu"}) = {}

\* a document with a preface, a TOC and no volume gave two chunks
C16_Witness ==
    /\ pc = "store"
    /\ NoVolumeMarker
    /\ Len(chunks) = 2
    /\ ContentType(1) = "xuyan" /\ ContentType(2) = "mulu"

\* C17: when the extraction of the page texts fails, the caller gets the
\* exception and nothing else: no text and no structure are returned, no
\* chunk is made and none is added to the vector store.
C17_ExtractionFailure ==
    pc = "extract_failed" =>
        /\ response = ExceptionRaised
        /\ full_text = <<>>
        /\ structure = NewStructure
        /\ chunks = <<>>
        /\ vector_store = <<>>
        /\ ~ENABLED NextDoc

\* the extraction failed after two pages, the first a volume heading
C17_Witness ==
    /\ pc = "extract_failed"
    /\ page_pos = 2
    /\ pdf_pages[1] = Lit(<<"LB", "juan", "zhi", "yi", "RB">>)

\* some page has text
NonEmptyInput == \E i \in 1..Len(pdf_pages) : pdf_pages[i] # <<>>

\* C18 as stated: when a document that is not empty gives no chunk, the caller
\* gets no exception, and what it gets can be told from a normal success: its
\* status is not "success".
C18_AsClaimed ==
    (pc = "doc_done" /\ NonEmptyInput /\ chunks = <<>>) =>
        /\ response.status # "exception"
        /\ response.status # "success"

\* the first n characters of s
FirstChars(s, n) == Lit([k \in 1..n |-> CharAt(s, k)])

\* a numeral and the enumeration comma
OrdinalCommaShape(t) == CharAt(t, 1) \in Numerals /\ CharAt(t, 2) = "dun"

\* a numeral between full-width parentheses
ParenthesizedShape(t) ==
    CharAt(t, 1) = "LP" /\ CharAt(t, 2) \in Numerals /\ CharAt(t, 3) = "RP"

\* n digits and a period
DecimalShape(t, n) ==
    /\ \A k \in 1..n : CharAt(t, k) \in Digits
    /\ CharAt(t, n + 1) = "."

\* C14: _extract_chapter_index gives a string for every title. A title that
\* starts with a numeral and the enumeration comma gives the decimal string of
\* the numeral; otherwise one that starts with a numeral in full-width
\* parentheses gives that numeral; otherwise one that starts with digits and a
\* period gives the digits; any other title gives the word "weizhi" (unknown).
C14_IndexShapes ==
    pc = "index_done" =>
        LET t == index_title
            r == index_result
            decimal == \E n \in 1..StrLen(t) : DecimalShape(t, n)
        IN /\ r # <<>>
           /\ OrdinalCommaShape(t) =>
                  /\ r = chinese_numbers[CharAt(t, 1)]
                  /\ \A k \in 1..StrLen(r) : CharAt(r, k) \in Digits
           /\ (~OrdinalCommaShape(t) /\ ParenthesizedShape(t)) =>
                  r = Lit(<<CharAt(t, 2)>>)
           /\ (~OrdinalCommaShape(t) /\ ~ParenthesizedShape(t) /\ decimal) =>
                  \E n \in 1..StrLen(t) : DecimalShape(t, n) /\ r = FirstChars(t, n)
           /\ (~OrdinalCommaShape(t) /\ ~ParenthesizedShape(t) /\ ~decimal) =>
                  r = Lit(<<"wei", "zhi1">>)

\* the numeral ten before the comma was resolved to "10"
C14_Witness ==
    /\ pc = "index_done"
    /\ index_title = Lit(<<"shi", "dun", "a">>)
    /\ index_result = Lit(<<"1", "0">>)

\* a step of the parser that opens a volume leaves no chapter current, and no
\* step changes a volume that is not the last one
EarlierVolumesKept ==
    /\ Len(structure'.volumes) > Len(structure.volumes) =>
           structure'.current_chapter = <<0, 0>>
    /\ \A v \in 1..(Len(structure.volumes) - 1) :
           structure'.volumes[v] = structure.volumes[v]

\* C20 as stated: opening a volume clears the current-chapter cursor, and once
\* a later volume is open no line changes the chapters of an earlier volume.
C20_AsClaimed == [][EarlierVolumesKept]_vars

\* what the branches dereference is there: the preface while the section is
\* "preface_content", the volume current_volume refers to, and the chapter
\* current_chapter refers to
CursorsValid ==
    /\ current_section = "preface_content" => structure.preface # <<>>
    /\ structure.current_volume \in 0..Len(structure.volumes)
    /\ structure.current_chapter # <<0, 0>> =>
          /\ structure.current_chapter[1] \in 1..Len(structure.volumes)
          /\ structure.current_chapter[2] \in
                1..Len(structure.volumes[structure.current_chapter[1]].chapters)

\* every line that is not blank enters one branch of the loop body, and the
\* line that falls out of the body changes nothing
OneBranch ==
    \A raw \in ParseLineSamples :
        Strip(raw) # <<>> =>
            LET taken == BranchesTaken(structure, current_section, Strip(raw))
                got == ParseLine(structure, current_section, raw)
            IN /\ Cardinality(taken) = 1
               /\ taken = {"default"} =>
                     got = [structure |-> structure, current_section |-> current_section]
               /\ taken \in {{"content"}, {"annotation"}} =>
                     /\ got.structure.volumes # structure.volumes
                     /\ got.current_section = current_section

\* C15: _parse_document_structure ends on every sequence of lines, the empty
\* one and those with no volume among them; in every state of the loop each
\* line that is not blank enters exactly one branch of the body, and the
\* preface, the volume and the chapter a branch writes to are present.
C15_ParserTotal == [](CursorsValid /\ OneBranch) /\ <>(pc = "parse_done")

\* a chapter heading, an annotation and a plain line with no volume open: all
\* three were read and the structure returned is the empty one
C15_Witness ==
    /\ pc = "parse_done"
    /\ parse_lines = << Lit(<<"yi", "dun", "a", "zhang">>),
                        Lit(<<"[", "zhu", "]", "a">>),
                        Lit(<<"a", "juhao">>) >>
    /\ structure = NewStructure

\* what an invocation on the lines ls gives when it runs alone
AloneStructure(ls) == ParseDocumentStructure(Join(Lit(<<"NL">>), ls))

AloneChunks(ls) ==
    CreateSemanticChunks([full_text |-> Join(Lit(<<"NL">>), ls),
                          structure |-> AloneStructure(ls)])

\* C19: of two invocations on one instance, their line steps interleaved in
\* any order, each ends with the structure and the chunks it gives when run
\* alone, and what the instance holds, the patterns and the table of
\* numerals, is what __init__ stored.
C19_CallsIndependent ==
    /\ instance = NewInstance
    /\ instance.chinese_numbers = chinese_numbers
    /\ \A i \in 1..Len(calls) :
          calls[i].pc = "done" =>
              /\ calls[i].structure = AloneStructure(calls[i].lines)
              /\ calls[i].chunks = AloneChunks(calls[i].lines)

\* both invocations are over; the first read a preface, the second a volume
\* and a chapter, and the second's chunks are those of its volume
C19_Witness ==
    /\ pc = "calls"
    /\ calls[1].pc = "done" /\ calls[2].pc = "done"
    /\ calls[1].lines = <<PrefaceTitle, Lit(<<"a", "juhao">>)>>
    /\ calls[2].lines = << Lit(<<"LB", "juan", "zhi", "yi", "RB">>),
                           Lit(<<"yi", "dun", "a", "zhang">>) >>
    /\ Len(calls[1].chunks) = 1
    /\ Len(calls[2].chunks) = 2

\* the line a step of the parser reads, stripped; <<>> when the step reads none
LineRead ==
    IF Len(parse_lines') = Len(parse_lines) + 1
    THEN Strip(parse_lines'[Len(parse_lines')]) ELSE <<>>

HasAnnotationTag(line) == \E i \in 1..Len(AnnotationTags) : StartsWith(line, AnnotationTags[i])

IsChapterHeading(line) ==
    \E i \in 1..Len(ChapterPatterns) : MatchChapter(ChapterPatterns[i], line)

\* the volumes after line was appended to the annotations of the chapter cur
WithAnnotation(vols, cur, line) ==
    [vols EXCEPT ![cur[1]].chapters[cur[2]].annotations = Append(@, line)]

\* the step appends the line read to the annotations of the current chapter and
\* to nothing else, and the current chapter stays the current one
ReadAsAnnotation ==
    /\ structure'.volumes = WithAnnotation(structure.volumes, structure.current_chapter, LineRead)
    /\ structure'.current_chapter = structure.current_chapter

\* C21 as stated: while a chapter is open, a line that begins with an annotation
\* tag is appended to the annotations of the current chapter, whatever else it
\* contains; it opens no chapter and leaves the content as it is.
C21_AsClaimed ==
    [][(structure.current_chapter # <<0, 0>> /\ HasAnnotationTag(LineRead))
          => ReadAsAnnotation]_vars

\* C21, amended: while a chapter is open, a line that begins with an annotation
\* tag and matches no chapter pattern is appended to the annotations of the
\* current chapter, opens no chapter and leaves the content as it is; a tagged
\* line that matches a chapter pattern opens a chapter of the current volume,
\* with the line as its title, and is appended to no annotations.
C21_AnnotationLine ==
    [][(structure.current_chapter # <<0, 0>> /\ HasAnnotationTag(LineRead)) =>
          IF IsChapterHeading(LineRead)
          THEN LET v == structure.current_volume
               IN /\ structure'.volumes =
                        [structure.volumes EXCEPT ![v].chapters =
                            Append(@, [title |-> LineRead, content |-> <<>>,
                                       annotations |-> <<>>])]
                  /\ structure'.current_chapter = <<v, Len(structure'.volumes[v].chapters)>>
          ELSE ReadAsAnnotation]_vars

\* a chapter with one line of content and, after it, one annotation
C21_Witness ==
    /\ structure.current_chapter = <<1, 1>>
    /\ structure.volumes[1].chapters[1].content = Lit(<<"a", "juhao", "NL">>)
    /\ structure.volumes[1].chapters[1].annotations = <<Lit(<<"[", "zhu", "]", "a">>)>>

\* the step stores nothing: the volumes, their chapters and the preface are
\* what they were
NothingStored ==
    /\ structure'.volumes = structure.volumes
    /\ structure'.preface = structure.preface

\* C22 as stated: a TOC marker sets has_toc and is stored nowhere, and from it
\* to the next volume marker no line is stored: no chapter gets content or an
\* annotation, no chapter is made and the preface gets nothing, whatever the
\* parser had open when the marker came.
C22_AsClaimed ==
    [][/\ MatchToc(LineRead) =>
              /\ structure'.has_toc
              /\ current_section' = "toc"
              /\ NothingStored
       /\ (current_section = "toc" /\ LineRead # <<>> /\ ~MatchVolume(LineRead)) =>
              NothingStored]_vars

\* the step appends a newline and the line read to the content of the preface
AppendedToPreface ==
    structure'.preface =
        <<[structure.preface[1] EXCEPT
              !.content = Cat(@, Cat(Lit(<<"NL">>), LineRead))]>>

LeftInitialMode ==
    \E i \in 1..Len(parse_lines) :
        \/ MatchToc(Strip(parse_lines[i]))
        \/ MatchVolume(Strip(parse_lines[i]))
        \/ Contains(Strip(parse_lines[i]), PrefaceTitle)

\* C24: there is at most one preface. A step makes it only from no preface,
\* on a line that has the preface title in it and before which no line was a
\* TOC marker, a volume marker or a line with the title; after such a line a
\* line with the title makes no preface and replaces none: the preface there
\* is keeps its title and the text its content begins with.
C24_OnePreface ==
    [][/\ Len(structure'.preface) <= 1
       /\ (structure.preface = <<>> /\ structure'.preface # <<>>) =>
              /\ ~LeftInitialMode
              /\ Contains(LineRead, PrefaceTitle)
              /\ structure'.preface = <<[title |-> PrefaceTitle, content |-> LineRead]>>
       /\ (LeftInitialMode /\ Contains(LineRead, PrefaceTitle)) =>
              IF structure.preface = <<>> THEN structure'.preface = <<>>
              ELSE /\ structure'.preface[1].title = structure.preface[1].title
                   /\ StartsWith(structure'.preface[1].content,
                                 structure.preface[1].content)]_vars

\* the title, a line, the title again: the second title was appended to the
\* content of the one preface
C24_Witness ==
    /\ parse_lines = <<PrefaceTitle, Lit(<<"a", "juhao">>), PrefaceTitle>>
    /\ structure.preface =
         <<[title |-> PrefaceTitle,
            content |-> Cat(PrefaceTitle,
                            Cat(Lit(<<"NL", "a", "juhao", "NL">>), PrefaceTitle))]>>

\* the line read reaches the chapter block and matches a chapter pattern
ChapterHeadingRead ==
    /\ LineRead # <<>>
    /\ ~MatchToc(LineRead) /\ ~MatchVolume(LineRead)
    /\ ~(Contains(LineRead, PrefaceTitle) /\ current_section = "preface")
    /\ current_section # "preface_content"
    /\ IsChapterHeading(LineRead)

\* the titles of the volume v and of its chapter c are lines read, the
\* volume's before the chapter's
HeadingsInOrder(v, c) ==
    \E i \in 1..Len(parse_lines), j \in 1..Len(parse_lines) :
        /\ i < j
        /\ Strip(parse_lines[i]) = structure.volumes[v].title
        /\ Strip(parse_lines[j]) = structure.volumes[v].chapters[c].title

\* C25: a chapter exists only inside a volume. A chapter heading read while no
\* volume is open makes no chapter and moves no cursor; one read while a
\* volume is open appends a chapter with empty content and no annotations to
\* the latest volume, and makes it the current chapter; and every chapter
\* there is follows, in the lines read, the heading of the volume it is in.
C25_ChapterInVolume ==
    /\ [](\A v \in 1..Len(structure.volumes) :
             \A c \in 1..Len(structure.volumes[v].chapters) : HeadingsInOrder(v, c))
    /\ [][ChapterHeadingRead =>
             IF structure.volumes = <<>>
             THEN /\ structure' = structure
                  /\ structure.current_volume = 0
                  /\ structure.current_chapter = <<0, 0>>
                  /\ current_section' = current_section
             ELSE LET n == Len(structure.volumes)
                  IN /\ structure'.volumes =
                           [structure.volumes EXCEPT ![n].chapters =
                               Append(@, [title |-> LineRead, content |-> <<>>,
                                          annotations |-> <<>>])]
                     /\ structure'.current_volume = n
                     /\ structure'.current_chapter =
                           <<n, Len(structure.volumes[n].chapters) + 1>>]_vars

\* a chapter heading before any volume made nothing; the same heading after
\* the second volume heading is the one chapter of the second volume
C25_Witness ==
    /\ Len(parse_lines) = 4
    /\ Strip(parse_lines[1]) = Lit(<<"yi", "dun", "a", "zhang">>)
    /\ Len(structure.volumes) = 2
    /\ structure.volumes[1].chapters = <<>>
    /\ structure.volumes[2].chapters =
          <<[title |-> Lit(<<"yi", "dun", "a", "zhang">>), content |-> <<>>,
             annotations |-> <<>>]>>

\* the numerals between "juan zhi" and the closing bracket of a volume heading
OrdinalOf(line) ==
    LET rest == Drop(line, 3)
    IN FirstChars(rest, StrLen(rest) - StrLen(SkipClass(rest, Numerals)))

\* C26 as stated: the volume a volume marker opens has the line as its title
\* and, as its index, what the table gives for the numerals of the heading:
\* the decimal string of one of the ten numerals, otherwise the numerals
\* themselves; what follows the closing bracket does not count.
C26_AsClaimed ==
    [][(MatchVolume(LineRead) /\ Len(structure'.volumes) = Len(structure.volumes) + 1) =>
          LET opened == structure'.volumes[Len(structure'.volumes)]
          IN /\ opened.title = LineRead
             /\ opened.volume_index = ChineseToNumber(OrdinalOf(LineRead))]_vars

----------------------------------------------------------------------------
(* Claims about the first loop of _split_classical_paragraphs.             *)

\* the first loop takes a step: it reads the run of split_text after scan_pos
ScanStepTaken == pc = "scan" /\ scan_pos' = scan_pos + 1

\* the places of the units the step closes
UnitsClosed == (Len(paragraphs) + 1)..Len(paragraphs')

\* the buffer when the j-th character of the run read has been appended, if no
\* unit was closed in the run before it (first) or if one was (not first)
BufferAt(first, j) ==
    Cat(IF first THEN current_para ELSE <<>>, Rep(split_text[scan_pos + 1].ch, j))

\* the unit at place q was closed just after a separator
ClosedAtSeparator(q) == split_text[scan_pos + 1].ch \in Separators

\* C27 as stated: every unit the first loop closes before the end of the text
\* was closed just after a separator, is at least 20 characters long and has
\* a terminal mark in it.
C27_AsClaimed ==
    [][ScanStepTaken =>
          \A q \in UnitsClosed :
              /\ ClosedAtSeparator(q)
              /\ StrLen(paragraphs'[q]) >= SemanticUnitLen
              /\ HasTerminalMark(paragraphs'[q])]_vars

\* C27, amended: every unit the first loop closes before the end of the text
\* was closed just after a separator, and it is the buffer, trimmed, of the
\* first separator at which the buffer was at least 20 characters long, its
\* whitespace counted, and had a terminal mark in it; the unit has a terminal
\* mark and can be shorter than 20 characters.  A run in which no buffer
\* qualifies at a separator closes no unit.
C27_CutsQualifiedBuffers ==
    [][ScanStepTaken =>
          LET run == split_text[scan_pos + 1]
              qualified(b) == StrLen(b) >= SemanticUnitLen /\ HasTerminalMark(b)
          IN /\ \A q \in UnitsClosed :
                    /\ ClosedAtSeparator(q)
                    /\ HasTerminalMark(paragraphs'[q])
                    /\ \E j \in 1..run.n :
                          LET first == (q = Len(paragraphs) + 1)
                          IN /\ qualified(BufferAt(first, j))
                             /\ paragraphs'[q] = Strip(BufferAt(first, j))
                             /\ first => \A i \in 1..(j - 1) : ~qualified(BufferAt(first, i))
             /\ (run.ch \notin Separators
                   \/ \A j \in 1..run.n : ~qualified(BufferAt(TRUE, j)))
                  => /\ UnitsClosed = {}
                     /\ current_para' = Cat(current_para, Rep(run.ch, run.n))]_vars

\* eighteen characters and a mark: no cut at the mark, where the buffer has 19
\* characters, and a cut at the newline after it; the unit has 19 characters
C27_Witness ==
    /\ split_text = Concat(<<Rep("a", 17), Lit(<<"b">>), Lit(<<"juhao", "NL", "NL">>)>>)
    /\ pc = "scan"
    /\ paragraphs = <<Cat(Rep("a", 17), Lit(<<"b", "juhao">>))>>
    /\ current_para = Lit(<<"NL">>)

\* C28 as stated: a group the second loop made of two or more units, joined
\* by newlines, is shorter than 800 characters; only a group that is one unit
\* can have 800 characters or more.
C28_AsClaimed ==
    \A k \in 1..Len(merged_paragraphs) :
        merged_counts[k] >= 2 => StrLen(merged_paragraphs[k]) < MergeThreshold

----------------------------------------------------------------------------
(* Claims about the metadata of the chunks of a document.                  *)

\* the place of the nearest volume-title chunk before the chunk at place k
TitleChunkBefore(k) == Nth(PlacesOf({"juanbiaoti"}), VolumeAt(k))

\* C29: there are as many volume-title chunks as volumes parsed, the v-th with
\* the title and the index of the v-th volume; every chapter chunk and every
\* paragraph chunk comes after a volume-title chunk, has the volume_title and
\* the volume_index of the nearest one before it, and has the title of a
\* chapter of that volume as its chapter_title.
C29_Provenance ==
    ChunksMade =>
        /\ Cardinality(PlacesOf({"juanbiaoti"})) = Len(structure.volumes)
        /\ \A v \in 1..Len(structure.volumes) :
              LET j == Nth(PlacesOf({"juanbiaoti"}), v)
              IN /\ chunks[j].metadata.volume_title = structure.volumes[v].title
                 /\ chunks[j].metadata.volume_index = structure.volumes[v].volume_index
        /\ \A k \in PlacesOf(ChapterTypes) :
              /\ VolumeAt(k) >= 1
              /\ chunks[k].metadata.volume_title
                    = chunks[TitleChunkBefore(k)].metadata.volume_title
              /\ chunks[k].metadata.volume_index
                    = chunks[TitleChunkBefore(k)].metadata.volume_index
              /\ \E c \in 1..Len(structure.volumes[VolumeAt(k)].chapters) :
                    structure.volumes[VolumeAt(k)].chapters[c].title
                      = chunks[k].metadata.chapter_title

\* two volumes, the second with a chapter: the chapter chunk has the index of
\* the second volume
C29_Witness ==
    /\ pc = "store"
    /\ Len(chunks) = 3
    /\ ContentType(1) = "juanbiaoti" /\ ContentType(2) = "juanbiaoti"
    /\ ContentType(3) = "zhangjie"
    /\ chunks[1].metadata.volume_index = Lit(<<"1">>)
    /\ chunks[3].metadata.volume_index = Lit(<<"2">>)

\* the characters of s that are not whitespace, in their order
NonWhitespace(s) ==
    LET F[i \in 0..Len(s)] ==
            IF i = 0 THEN <<>>
            ELSE IF s[i].ch \in Whitespace THEN F[i - 1] ELSE Cat(F[i - 1], <<s[i]>>)
    IN F[Len(s)]

\* C30: the first loop loses no text. While it runs, the units closed and the
\* buffer, one after the other, have the characters other than whitespace of
\* the text read so far, in their order; when it is over the units have those
\* of the whole text, and each unit is trimmed and not empty.
C30_NoTextLost ==
    /\ pc = "scan" =>
          NonWhitespace(Cat(Concat(paragraphs), current_para))
            = NonWhitespace(SubSeq(split_text, 1, scan_pos))
    /\ pc \in {"merge", "split_done"} =>
          /\ NonWhitespace(Concat(paragraphs)) = NonWhitespace(split_text)
          /\ \A i \in 1..Len(paragraphs) :
                paragraphs[i] # <<>> /\ Strip(paragraphs[i]) = paragraphs[i]

\* a text of two units, shorter than the text by the whitespace trimmed where
\* they were cut; the second has a short line with no mark before its sentence
C30_Witness ==
    /\ pc = "merge"
    /\ Len(paragraphs) = 2
    /\ StrLen(split_text) > StrLen(Concat(paragraphs))
    /\ StartsWith(paragraphs[2], Cat(Rep("a", 5), Lit(<<"NL">>)))

============================================================================
